---- MODULE Spec2Model ----
(***************************************************************************)
(* Model of the WNGW test tool core: the IEC 60870-5-104 frame codec       *)
(* (backend/iec104/protocol.py), the client/server endpoint processes      *)
(* (backend/processes.py) and the test orchestrator PruefungRunner         *)
(* (main.py).                                                              *)
(*                                                                         *)
(* The specifications share the module's variables; each one leaves the    *)
(* variables of the parts it does not exercise at their idle values:       *)
(*   SpecParser     FrameParser.feed on chunked byte streams               *)
(*   Spec           one master and one slave endpoint in a closed loop     *)
(*   SpecPeer       each endpoint alone against a foreign peer, with stop  *)
(*   SpecWrap       the closed loop on a long-running connection           *)
(*   SpecReconnect  the master alone, losing and renewing its connection   *)
(*   SpecSlave      the slave alone, answering a foreign master            *)
(*   SpecRunner     PruefungRunner._run against abort()                    *)
(*   SpecDispatch   one sub-test: segments, turns and expected telegrams   *)
(*   SpecSegments   _build_signal_segments on signal lists                 *)
(*   SpecTimeout    runs without abort(), with the runner thread fair      *)
(*   SpecRoundTrip  build_i_frame, decode_frame and FrameParser.feed       *)
(*   SpecSFrame     build_s_frame for every receive sequence number       *)
(*   SpecInformation  the information bytes built for signal rows          *)
(*   SpecConfig     configurations saved and the rows of stored ones run   *)
(*   SpecSignals    signal rows flushed on connections that may break      *)
(*   SpecSignalsFair  the same, each endpoint process kept running          *)
(*   SpecRuns       runs started one after the other, and their test mode  *)
(*   SpecWorkers    workers started and stopped while listeners drain      *)
(*   SpecHistory    CommunicationHistory called from several threads       *)
(*   SpecEvents     events from the endpoints to history and subscribers   *)
(***************************************************************************)
EXTENDS Integers, Sequences, FiniteSets, TLC

\* Python None in an Optional[int] field.
None == 0 - 1

(***************************************************************************)
(* Bounds of the model.                                                    *)
(***************************************************************************)
\* longest arbitrary byte stream fed to the parser
MaxStream == 5
\* longest garbage prefix put in front of a valid frame
MaxGarbage == 3
\* rows of the signal list for the master in a closed loop
MaxRows == 4
\* rows of the signal list for the slave in a closed loop
MaxSlaveRows == 1
\* rows of the signal list for each side connected to a foreign peer
MaxPeerRows == 2
\* rows of the signal list for the master on a connection near the wrap
MaxWrapRows == 2
\* a keep-alive test frame is sent while fewer frames wait at the slave
MaxWire == 1
\* commands waiting in a command queue
MaxQueue == 2
\* most frames one recv() returns
MaxChunk == 2
\* frames a foreign peer writes on one connection
MaxForeign == 2
\* sub-tests of a run
MaxTeil == 2
\* rows in the signal list of a sub-test
MaxRunRows == 2
\* telegram events published during one sub-test
MaxEvents == 2
\* rows in the signal list of a sub-test with rows of both sides
MaxDispatchRows == 2
\* telegram and status events published during the run of one signal list
MaxDispatchEvents == 1
\* T1, the time the master may wait for TESTFR CON, in timeouts of select()
T1_TICKS == 2
\* rows of a signal list that is only cut into segments
MaxSegRows == 2
\* calls of CommunicationHistory.record that reach a file
MaxHistory == 2
\* events the two endpoint processes publish
MaxPublished == 3
\* sub-tests of a configuration handed to _store_configuration
MaxConfigTeil == 2
\* rows the orchestrator hands to an endpoint whose sends may fail
MaxSignalRows == 3
\* calls of PruefungRunner.start
MaxStarts == 2

(***************************************************************************)
(* Frame codec: backend/iec104/protocol.py                                 *)
(***************************************************************************)
START_BYTE == 104

U_FRAME_LABELS(ctrl1) ==
    CASE ctrl1 = 7   -> "STARTDT ACT"
      [] ctrl1 = 11  -> "STARTDT CON"
      [] ctrl1 = 19  -> "STOPDT ACT"
      [] ctrl1 = 35  -> "STOPDT CON"
      [] ctrl1 = 67  -> "TESTFR ACT"
      [] ctrl1 = 131 -> "TESTFR CON"
      [] OTHER       -> "U-FRAME"

\* TYPE_LABELS.get(type_id); "" stands for a missing key
TYPE_LABELS(type_id) ==
    CASE type_id = 70  -> "INITIALISIERUNGSENDE"
      [] type_id = 100 -> "GENERALABFRAGE"
      [] OTHER         -> ""

\* COT_LABELS.get((type_id, cause)); "" stands for a missing key
COT_LABELS(type_id, cause) ==
    CASE type_id = 100 /\ cause = 6  -> "GENERALABFRAGE ACT"
      [] type_id = 100 /\ cause = 7  -> "GENERALABFRAGE CON"
      [] type_id = 100 /\ cause = 10 -> "GENERALABFRAGE END"
      [] OTHER                       -> ""

\* The parsing loop of FrameParser.feed on the extended buffer.
RECURSIVE feed_loop(_, _)
feed_loop(buf, out) ==
    IF Len(buf) < 2 THEN [frames |-> out, buffer |-> buf]
    ELSE IF buf[1] # START_BYTE THEN feed_loop(Tail(buf), out)
    ELSE LET needed == buf[2] + 2 IN
         IF Len(buf) < needed THEN [frames |-> out, buffer |-> buf]
         ELSE feed_loop(SubSeq(buf, needed + 1, Len(buf)),
                        Append(out, SubSeq(buf, 1, needed)))

\* Mutant: a frame that is not yet complete is thrown away with the buffer.
feed_drop_partial(buf, data) ==
    [frames |-> feed_loop(buf \o data, <<>>).frames, buffer |-> <<>>]

\* Mutant: a wrong start byte stops the loop instead of being discarded.
RECURSIVE feed_loop_no_resync(_, _)
feed_loop_no_resync(buf, out) ==
    IF Len(buf) < 2 THEN [frames |-> out, buffer |-> buf]
    ELSE IF buf[1] # START_BYTE THEN [frames |-> out, buffer |-> buf]
    ELSE LET needed == buf[2] + 2 IN
         IF Len(buf) < needed THEN [frames |-> out, buffer |-> buf]
         ELSE feed_loop_no_resync(SubSeq(buf, needed + 1, Len(buf)),
                                  Append(out, SubSeq(buf, 1, needed)))

feed_no_resync(buf, data) == feed_loop_no_resync(buf \o data, <<>>)

\* FrameParser.feed(data) on a parser whose _buffer is buf:
\* the frames returned and the buffer left behind.
feed(buf, data) == feed_loop(buf \o data, <<>>)

\* _extract_sequences(frame)
extract_sequences(frame) ==
    IF Len(frame) < 6 THEN [send |-> 0, recv |-> 0]
    ELSE [send |-> ((frame[4] * 256) + frame[3]) \div 2,
          recv |-> ((frame[6] * 256) + frame[5]) \div 2]

\* decode_frame(frame); frame[2:6] is the control field, frame[6:] the payload
decode_frame(frame) ==
    LET payload == SubSeq(frame, 7, Len(frame))
        ctrl1 == frame[3]
        type_id == IF Len(payload) > 0 THEN payload[1] ELSE None
        cause == IF Len(payload) >= 4 THEN payload[3] ELSE None
        originator == IF Len(payload) >= 4 THEN payload[4] ELSE None
        station == IF Len(payload) >= 6 THEN payload[5] + payload[6] * 256 ELSE None
        ioa == IF Len(payload) >= 9
               THEN payload[7] + payload[8] * 256 + payload[9] * 65536 ELSE None
        cause_label == COT_LABELS(IF type_id = None THEN 0 ELSE type_id,
                                  IF cause = None THEN 0 ELSE cause)
        type_label == TYPE_LABELS(type_id)
    IN  IF ctrl1 % 2 = 0
        THEN [frame_family |-> "I",
              label |-> IF cause_label # "" THEN cause_label
                        ELSE IF type_label # "" THEN type_label ELSE "I-FRAME",
              type_id |-> type_id, cause |-> cause, originator |-> originator,
              station |-> station, ioa |-> ioa, payload |-> payload]
        ELSE IF ctrl1 % 4 = 3
        THEN [frame_family |-> "U", label |-> U_FRAME_LABELS(ctrl1),
              type_id |-> None, cause |-> None, originator |-> None,
              station |-> None, ioa |-> None, payload |-> payload]
        ELSE [frame_family |-> "S", label |-> "S-FRAME",
              type_id |-> None, cause |-> None, originator |-> None,
              station |-> None, ioa |-> None, payload |-> payload]

\* build_u_frame(command)
build_u_frame(command) == <<START_BYTE, 4, command, 0, 0, 0>>

\* build_s_frame that writes the counter into the control field unshifted
build_s_frame_unshifted(recv_sequence) ==
    <<START_BYTE, 4, 1, 0, recv_sequence % 256, (recv_sequence \div 256) % 256>>

\* build_s_frame(recv_sequence)
build_s_frame(recv_sequence) ==
    LET recv_field == recv_sequence * 2
    IN  <<START_BYTE, 4, 1, 0, recv_field % 256, (recv_field \div 256) % 256>>

\* build_i_frame that writes the counters into the control field unshifted
build_i_frame_unshifted(send_sequence, recv_sequence, type_id, cause, originator, common_address, ioa, information) ==
    <<START_BYTE, Len(information) + 13,
      send_sequence % 256, (send_sequence \div 256) % 256,
      recv_sequence % 256, (recv_sequence \div 256) % 256,
      type_id, 1, cause % 256, originator % 256,
      common_address % 256, (common_address \div 256) % 256,
      ioa % 256, (ioa \div 256) % 256, (ioa \div 65536) % 256>>
    \o information

\* build_i_frame(...) with the default vsq = 0x01
build_i_frame(send_sequence, recv_sequence, type_id, cause, originator, common_address, ioa, information) ==
    LET send_field == send_sequence * 2
        recv_field == recv_sequence * 2
    IN  <<START_BYTE, Len(information) + 13,
          send_field % 256, (send_field \div 256) % 256,
          recv_field % 256, (recv_field \div 256) % 256,
          type_id, 1, cause % 256, originator % 256,
          common_address % 256, (common_address \div 256) % 256,
          ioa % 256, (ioa \div 256) % 256, (ioa \div 65536) % 256>>
        \o information

(***************************************************************************)
(* Information bytes of a signal row: backend/processes.py                  *)
(*                                                                         *)
(* A text is a Python str.  The value texts are the strings of ValueTexts; *)
(* a qualifier text is a sequence of characters, the empty one standing    *)
(* also for a missing Qualifier.                                           *)
(***************************************************************************)
\* TYPE_INFORMATION_LENGTHS.get(type_id)
TYPE_INFORMATION_LENGTHS(type_id) ==
    CASE type_id = 1   -> 1
      [] type_id = 3   -> 1
      [] type_id = 5   -> 2
      [] type_id = 7   -> 5
      [] type_id = 9   -> 3
      [] type_id = 11  -> 3
      [] type_id = 13  -> 5
      [] type_id = 15  -> 5
      [] type_id = 30  -> 8
      [] type_id = 31  -> 8
      [] type_id = 36  -> 12
      [] type_id = 58  -> 8
      [] type_id = 59  -> 1
      [] type_id = 63  -> 12
      [] type_id = 70  -> 1
      [] type_id = 100 -> 1
      [] type_id = 103 -> 7
      [] OTHER         -> None

\* TYPE_VALUE_FIELD_LENGTHS.get(type_id)
TYPE_VALUE_FIELD_LENGTHS(type_id) ==
    CASE type_id = 1   -> 1
      [] type_id = 3   -> 1
      [] type_id = 5   -> 1
      [] type_id = 7   -> 4
      [] type_id = 9   -> 2
      [] type_id = 11  -> 2
      [] type_id = 13  -> 4
      [] type_id = 15  -> 4
      [] type_id = 30  -> 1
      [] type_id = 31  -> 1
      [] type_id = 36  -> 4
      [] type_id = 58  -> 1
      [] type_id = 59  -> 1
      [] type_id = 63  -> 5
      [] type_id = 70  -> 1
      [] type_id = 100 -> 1
      [] type_id = 103 -> 7
      [] OTHER         -> None

TIMESTAMP_TYPES == {30, 31, 36, 58, 63, 103}
TIME_ONLY_TYPES == {103}

\* QUALIFIER_FIELD_SPECS.get(type_id); index None stands for a missing key
QUALIFIER_FIELD_SPECS(type_id) ==
    CASE type_id \in {1, 30}          -> [label |-> "SIQ", index |-> 0]
      [] type_id \in {3, 31}          -> [label |-> "DIQ", index |-> 0]
      [] type_id = 5                  -> [label |-> "QDS", index |-> 1]
      [] type_id \in {9, 11}          -> [label |-> "QDS", index |-> 2]
      [] type_id \in {7, 13, 15, 36}  -> [label |-> "QDS", index |-> 4]
      [] type_id = 58                 -> [label |-> "DCO", index |-> 0]
      [] type_id = 59                 -> [label |-> "QRP", index |-> 0]
      [] type_id = 63                 -> [label |-> "QOS", index |-> 4]
      [] type_id = 70                 -> [label |-> "COI", index |-> 0]
      [] type_id = 100                -> [label |-> "QOI", index |-> 0]
      [] OTHER                        -> [label |-> "", index |-> None]

\* the value texts of the rows: a float literal, integers in and out of the
\* range of one byte, and a negative one
ValueTexts == {"0.0", "1", "-1", "300"}

\* struct.pack("<f", float(text)) for the value texts
float_part(text) ==
    CASE text = "1"   -> <<0, 0, 128, 63>>
      [] text = "-1"  -> <<0, 0, 128, 191>>
      [] text = "300" -> <<0, 0, 150, 67>>
      [] OTHER        -> <<0, 0, 0, 0>>

\* int(text, 0) for the value and type texts, 0 where it raises ValueError: the
\* number of _encode_value_bytes and the result of _safe_int
safe_int(text) ==
    CASE text = "1"   -> 1
      [] text = "-1"  -> 0 - 1
      [] text = "300" -> 300
      [] text = "13"  -> 13
      [] OTHER        -> 0

\* number.to_bytes(length, "little", signed=signed) does not raise OverflowError
fits(number, length, signed) ==
    IF length >= 4 THEN signed \/ number >= 0
    ELSE IF signed THEN 0 - 2 ^ (8 * length - 1) <= number /\ number < 2 ^ (8 * length - 1)
    ELSE 0 <= number /\ number < 2 ^ (8 * length)

\* number.to_bytes(length, "little", signed=signed) where it does not raise
to_bytes(number, length) == [i \in 1..length |-> (number \div (256 ^ (i - 1))) % 256]

\* bytes of the length given, all zero
zeros(length) == [i \in 1..length |-> 0]

\* the result of a call that returns bytes or raises OverflowError
returned(bytes) == [raised |-> FALSE, bytes |-> bytes]
overflow_error == [raised |-> TRUE, bytes |-> <<>>]

\* _encode_value_bytes(type_id, value_text, length)
encode_value_bytes(type_id, value_text, length) ==
    IF length <= 0 THEN returned(<<>>)
    ELSE IF type_id \in {13, 36, 63}
    THEN returned(IF length <= 4 THEN SubSeq(float_part(value_text), 1, length)
                  ELSE float_part(value_text) \o zeros(length - 4))
    ELSE LET number == safe_int(value_text)
             signed == type_id \in {5, 9, 11, 13, 15, 36} /\ type_id \notin {1, 3, 7, 30, 31}
         IN  IF fits(number, length, signed)
             THEN returned(to_bytes(number, length))
             ELSE overflow_error

\* the two clock readings of the model, as _build_cp56time2a encodes them
Cp56Times == {<<0, 0, 0, 0, 33, 1, 26>>, <<95, 234, 59, 23, 255, 12, 99>>}

\* str.strip() for texts padded with blanks
RECURSIVE strip(_)
strip(text) ==
    IF text # <<>> /\ Head(text) = " " THEN strip(Tail(text))
    ELSE IF text # <<>> /\ text[Len(text)] = " " THEN strip(SubSeq(text, 1, Len(text) - 1))
    ELSE text

\* int(text, 2) for a text of binary digits
RECURSIVE int_base_2(_)
int_base_2(text) ==
    IF text = <<>> THEN 0
    ELSE 2 * int_base_2(SubSeq(text, 1, Len(text) - 1))
             + (IF text[Len(text)] = "1" THEN 1 ELSE 0)

\* _QUALIFIER_PATTERN.fullmatch(text)
QUALIFIER_PATTERN(text) == Len(text) = 8 /\ \A i \in 1..8 : text[i] \in {"0", "1"}

\* _parse_qualifier_byte(value)
parse_qualifier_byte(value) ==
    IF QUALIFIER_PATTERN(strip(value)) THEN int_base_2(strip(value)) % 256 ELSE None

\* the qualifier texts of the rows: none, two of 8 binary digits, one of 7,
\* one padded with a blank, and one in the form of type 58
QualifierTexts ==
    { <<>>,
      <<"1", "0", "0", "0", "0", "0", "0", "0">>,
      <<"0", "0", "0", "0", "0", "0", "0", "1">>,
      <<"1", "0", "0", "0", "0", "0", "0">>,
      <<" ", "1", "0", "0", "0", "0", "0", "0", "0">>,
      <<"S", "/", "E", "=", "1", ",", " ", "Q", "U", "=", "3">> }

\* int(text, 10) for a text of decimal digits 0 and 1
RECURSIVE int_base_10(_)
int_base_10(text) ==
    IF text = <<>> THEN 0
    ELSE 10 * int_base_10(SubSeq(text, 1, Len(text) - 1))
             + (IF text[Len(text)] = "1" THEN 1 ELSE 0)

\* the S/E flag and the QU value _build_type_58_information reads from the
\* qualifier texts: "S/E=1, QU=3" names both; a text of digits is read by
\* _safe_int as one decimal number, which int(text, 0) rejects (giving 0) if
\* a leading zero precedes a 1
type_58_qualifier(qualifier_text) ==
    LET text == strip(qualifier_text)
    IN  IF text = <<"S", "/", "E", "=", "1", ",", " ", "Q", "U", "=", "3">>
        THEN [se_flag |-> 1, qu_value |-> 3]
        ELSE IF text # <<>> /\ \A i \in 1..Len(text) : text[i] \in {"0", "1"}
        THEN [se_flag |-> 0,
              qu_value |-> IF text[1] = "0" /\ \E i \in 1..Len(text) : text[i] = "1"
                           THEN 0 ELSE int_base_10(text)]
        ELSE [se_flag |-> 0, qu_value |-> 0]

\* _build_type_58_information(value_text, qualifier_text) at the clock reading
build_type_58_information(value_text, qualifier_text, cp56time) ==
    LET dcs_value == safe_int(value_text) % 4
        q == type_58_qualifier(qualifier_text)
        qu_value == IF q.qu_value > 31 THEN 31 ELSE q.qu_value
    IN  <<q.se_flag * 128 + qu_value * 4 + dcs_value>> \o cp56time

\* payload[start:start + len(bytes)] = bytes, start counted from 0
put(payload, start, bytes) ==
    [i \in 1..Len(payload) |->
        IF i > start /\ i <= start + Len(bytes) THEN bytes[i - start] ELSE payload[i]]

\* _build_information_bytes(type_id, value_text, qualifier_text) at the clock
\* reading cp56time
information_bytes(type_id, value_text, qualifier_text, cp56time) ==
    IF type_id = 58
    THEN returned(build_type_58_information(value_text, qualifier_text, cp56time))
    ELSE LET total_length == TYPE_INFORMATION_LENGTHS(type_id)
             value_length == IF type_id \in TIME_ONLY_TYPES THEN 0
                             ELSE IF TYPE_VALUE_FIELD_LENGTHS(type_id) # None
                             THEN TYPE_VALUE_FIELD_LENGTHS(type_id)
                             ELSE IF total_length = None THEN 0 ELSE total_length
             encoded_value == encode_value_bytes(type_id, value_text, value_length)
         IN  IF encoded_value.raised \/ total_length = None THEN encoded_value
             ELSE LET valued == put(zeros(total_length), 0,
                                    SubSeq(encoded_value.bytes, 1,
                                           IF Len(encoded_value.bytes) < total_length
                                           THEN Len(encoded_value.bytes) ELSE total_length))
                      start == IF total_length > 7 THEN total_length - 7 ELSE 0
                      stamped == IF type_id \in TIMESTAMP_TYPES
                                 THEN put(valued, start,
                                          SubSeq(cp56time, 1,
                                                 IF total_length - start < 7
                                                 THEN total_length - start ELSE 7))
                                 ELSE valued
                      qualifier_value == parse_qualifier_byte(qualifier_text)
                      offset == QUALIFIER_FIELD_SPECS(type_id).index
                  IN  returned(IF /\ qualifier_value # None
                                  /\ offset # None
                                  /\ offset < total_length
                               THEN put(stamped, offset, <<qualifier_value>>)
                               ELSE stamped)

\* _extract_information_bytes(payload)[1]
extract_information_bytes(payload) ==
    IF Len(payload) <= 9 THEN <<>> ELSE SubSeq(payload, 10, Len(payload))

\* _decode_qualifier_field(type_id, payload); value None stands for None
decode_qualifier_field(type_id, payload) ==
    LET spec == QUALIFIER_FIELD_SPECS(type_id)
        bytes == extract_information_bytes(payload)
    IN  IF type_id = None \/ spec.index = None \/ bytes = <<>> \/ spec.index >= Len(bytes)
        THEN [label |-> "", value |-> None]
        ELSE [label |-> spec.label, value |-> bytes[spec.index + 1]]

(***************************************************************************)
(* State                                                                   *)
(***************************************************************************)
VARIABLES
    \* FrameParser under test
    stream,     \* the bytes the socket will deliver, in order
    fed,        \* how many of them have been passed to feed() so far
    buffer,     \* FrameParser._buffer
    frames,     \* the frames returned by the feed() calls so far, concatenated
    \* endpoint processes, one per side
    pc,               \* where each endpoint process is in run()/_loop()/_handle_connection()
    stop_event,       \* _BaseEndpoint.stop_event
    sock,             \* the side holds an open TCP connection (client: _sock, server: conn)
    sequence,         \* v_s: client _sequence, server _send_sequence
    recv_sequence,    \* v_r: _recv_sequence
    pending_signals,  \* _BaseEndpoint._pending_signals
    command_queue,    \* _BaseEndpoint.command_queue
    test_active,      \* _BaseEndpoint._test_active
    connected,        \* the last status event the side published
    wire,             \* the frames written towards the side and not yet handled by it
    chunk,            \* frames of the current recv() still to be handled
    closed_loop,      \* the master's remote address is the slave (else: foreign peers)
    foreign_open,     \* the foreign peer of the side holds its end of the connection open
    rows_left,        \* rows of the signal list the orchestrator has still to send to the side
    \* history of the connection (the processes keep no such fields)
    ack_received,     \* the receive sequence number of the last S- or I-frame the side handled
    started,          \* the STARTDT handshake is complete at the side
    \* the master's connection
    parser_buffer,    \* IEC104ClientProcess._parser._buffer: the bytes of an unfinished frame
    published,        \* the TCP, STARTDT and status events the master has published
                      \* since the current pass of the loop of run() began, each with
                      \* the counters and the parser buffer at that time
    testfr_wait,      \* history, kept with a foreign peer: timeouts of select() since
                      \* the oldest TESTFR ACT that is not confirmed, or None
    \* the slave's connection
    slave_log,        \* history, kept with a foreign peer: the frame the slave has
                      \* published as received last and the frames it has written
                      \* since, in order; empty when a pass of the loop of
                      \* _handle_connection begins
    \* PruefungRunner and its TeilpruefungRecorder (main.py)
    run_pc,           \* where the runner thread is in _run()
    index,            \* the sub-test _run() is at, counted from 1
    current_run,      \* PruefungRunner._current_run
    runner_stop_event,\* PruefungRunner._stop_event
    aborted,          \* the local variable aborted of _run()
    rows,             \* the rows of the signal list of each sub-test
    rows_todo,        \* rows of the segment _dispatch_signals has still to send
    segments,         \* _dispatch_signals: the segments of the signal list
    seg,              \* _dispatch_signals: the segment it is at, counted from 1
    pending,          \* _dispatch_signals: expected signatures per receiving side
    expected_counts,  \* _dispatch_signals: expected incoming count per side, or None
    consider_from,    \* _dispatch_signals: time of the first signal, or None
    incoming_counts,  \* PruefungRunner._incoming_counts
    signals_sent,     \* calls of backend.send_signal so far
    recorder,         \* the TeilpruefungRecorder
    recordings,       \* the recording files written, one per sub-test
    events,           \* PruefungRunner._events: the events not yet pulled
    now,              \* the clock: recordings started so far
    pruefprotokoll,   \* the run summary written by _store_pruefprotokoll
    \* history of the run (the runner keeps no such field)
    abort_at,         \* where the runner thread was at the first call of abort()
    waited,           \* _wait_for_turn has slept in its current call
    raised,           \* an exception has left the loop of _run()
    \* the frame builders under test
    fields,           \* the arguments of the call of build_i_frame that built stream
    \* CommunicationHistory (backend/history.py)
    history_files,    \* the text of client.jsonl and of server.jsonl, as characters
    history_lock,     \* CommunicationHistory._lock: the thread that holds it, or "free"
    calls,            \* the call of record, load or clear each thread is in
    \* history of the history files (the class keeps no such fields)
    recorded,         \* the payloads record() has written per side since its last clear()
    dropped,          \* how many recorded payloads the calls of clear() removed per side
    \* the way of an event: endpoint, queue, listener, history and EventBus
    event_index,      \* _BaseEndpoint._event_index of each endpoint process
    event_queue,      \* the multiprocessing queue of each endpoint process
    drain,            \* the listener thread of each queue, in _drain_queue
    connection_state, \* BackendController._connection_state[side]: connected and the
                      \* two endpoints
    subscribers,      \* EventBus._subscribers
    consumer,         \* each consumer: its queue and what it has taken from it
    produced,         \* history: how many events each endpoint has published
    \* the stored configurations (main.py)
    config_files,     \* the configuration file of each id: its content, or absent
    save_result,      \* how the last call of _store_configuration ended
    run_row,          \* what became of the stored row a run handled last
    \* history of the signal rows (the processes keep no such field)
    signal_log,       \* per endpoint: the rows enqueued with send_signal, the rows
                      \* sent, the events _send_signal_from_row has published (a run
                      \* of equal events once), and whether a send has raised on the
                      \* socket
    \* the worker processes of BackendController
    managed,          \* per side: no worker, a worker that is alive, one asked to
                      \* stop, one that has ended, and _stop_process having returned
    \* history of the runs (the runner keeps no such field)
    run_log           \* the calls of start and the runner threads started so far,
                      \* whether the last call of start raised, the calls of
                      \* set_test_active of the current run, each with the signals
                      \* the run had sent, and the signals sent before the run

parserVars == <<stream, fed, buffer, frames>>

linkVars == <<pc, stop_event, sock, sequence, recv_sequence, pending_signals,
              command_queue, test_active, connected, wire, chunk,
              closed_loop, foreign_open, rows_left, ack_received, started,
              parser_buffer, published, testfr_wait, slave_log>>

\* the master's connection log, parser and keep-alive history, and the
\* slave's log
connVars == <<parser_buffer, published, testfr_wait, slave_log>>

runnerVars == <<run_pc, index, current_run, runner_stop_event, aborted, rows, rows_todo,
                signals_sent, recorder, recordings, events, now, pruefprotokoll, abort_at,
                segments, seg, pending, expected_counts, consider_from, incoming_counts,
                waited, raised>>

\* the codec under test
historyVars == <<history_files, history_lock, calls, recorded, dropped>>

busVars == <<event_index, event_queue, drain, connection_state, subscribers, consumer,
             produced>>

configVars == <<config_files, save_result, run_row>>

serviceVars == <<fields, historyVars, busVars, configVars, signal_log, run_log, managed>>

vars == <<parserVars, linkVars, runnerVars, serviceVars>>

\* what the endpoint processes leave alone
outsideLink == <<parserVars, runnerVars, serviceVars>>

\* what the frame parser leaves alone
outsideParser == <<linkVars, runnerVars, serviceVars>>

\* what the runner leaves alone
outsideRunner == <<parserVars, linkVars, serviceVars>>

\* what the communication history leaves alone
outsideHistory ==
    <<parserVars, linkVars, runnerVars, fields, busVars, configVars, signal_log, run_log,
      managed>>

\* what the events on their way leave alone
outsideEvents ==
    <<parserVars, linkVars, runnerVars, fields, history_lock, calls, dropped, configVars,
      signal_log, run_log, managed>>

\* what the stored configurations leave alone
outsideConfig ==
    <<parserVars, linkVars, runnerVars, fields, historyVars, busVars, signal_log, run_log,
      managed>>

\* what the controller leaves alone when it starts and stops its workers
outsideWorkers ==
    <<parserVars, linkVars, runnerVars, fields, historyVars, configVars, signal_log,
      run_log>>

\* what the endpoint processes leave alone when the signal rows are followed
outsideSignals ==
    <<parserVars, runnerVars, fields, historyVars, busVars, configVars, run_log, managed>>

\* what the runner leaves alone when its runs are followed: all but the
\* pc and the command queues of the endpoints
outsideRuns ==
    <<parserVars, fields, historyVars, busVars, configVars, signal_log, managed, stop_event, sock,
      sequence, recv_sequence, pending_signals, test_active, connected, wire, chunk,
      closed_loop, foreign_open, rows_left, ack_received, started, connVars>>

(***************************************************************************)
(* FrameParser fed a byte stream in arbitrary chunks                       *)
(***************************************************************************)
\* bytes of the arbitrary streams: the start byte, small length bytes, a
\* length byte no bounded stream completes, and a filler
StreamBytes == {START_BYTE, 0, 1, 2, 255}

RECURSIVE SeqsUpTo(_, _)
SeqsUpTo(S, n) ==
    IF n = 0 THEN {<<>>}
    ELSE LET shorter == SeqsUpTo(S, n - 1)
         IN  shorter \cup {Append(s, b) : s \in {t \in shorter : Len(t) = n - 1}, b \in S}

\* complete APDUs as the builders produce them, and two minimal ones
ValidFrames ==
    { build_u_frame(7), build_u_frame(131), build_s_frame(1),
      build_i_frame(0, 0, 100, 6, 0, 1, 0, <<20>>),
      <<START_BYTE, 0>>, <<START_BYTE, 1, START_BYTE>> }

GarbageBytes == {255, 0, 4}

ResyncStreams ==
    { g \o f : g \in SeqsUpTo(GarbageBytes, MaxGarbage), f \in ValidFrames }

\* one socket read of n bytes handed to FrameParser.feed
Feed(n) ==
    /\ UNCHANGED outsideParser
    /\ fed + n <= Len(stream)
    /\ LET r == feed(buffer, SubSeq(stream, fed + 1, fed + n))
       IN  /\ buffer' = r.buffer
           /\ frames' = frames \o r.frames
    /\ fed' = fed + n
    /\ UNCHANGED stream

(***************************************************************************)
(* Endpoint processes: backend/processes.py                                *)
(*                                                                         *)
(* The wire carries whole frames: FrameParser returns the same frames for  *)
(* every chunking of the byte stream (C4_ChunkIndependent below), so one   *)
(* recv() is modelled as a number of complete frames.                      *)
(***************************************************************************)
E == {"client", "server"}

Peer(e) == IF e = "client" THEN "server" ELSE "client"

\* ClientSettings.originator_address / ServerSettings.originator_address (default "0")
originator_address == 0
\* ClientSettings.remote_asdu / ServerSettings.common_address (default "0")
common_address == 0

\* the signal rows the orchestrator hands to the endpoints: a general
\* interrogation and a single-point information
GI_ROW == [type_id |-> 100, cause |-> 6, ioa |-> 0, value |-> 20]
SP_ROW == [type_id |-> 1, cause |-> 20, ioa |-> 1, value |-> 1]
LinkRows == {GI_ROW, SP_ROW}
\* the master is given both, the slave the single-point information
rows_of(e) == IF e = "client" THEN LinkRows ELSE {SP_ROW}

\* _build_information_bytes for the one-byte types 1 and 100 (value in 0..255)
build_information_bytes(type_id, value) == <<value % 256>>

\* the other end of the side's connection is still open
peer_open(e) == IF closed_loop THEN sock[Peer(e)] ELSE foreign_open[e]

\* the wires after the side has written the frames fs to its socket: in the
\* closed loop they reach the other side as long as its end is open
sendall(e, fs) ==
    IF closed_loop /\ sock[Peer(e)]
    THEN [wire EXCEPT ![Peer(e)] = @ \o fs]
    ELSE wire

\* a second single-point information, and a row whose type cell is empty
\* or no number: _safe_int gives 0
SP_ROW_2 == [type_id |-> 1, cause |-> 20, ioa |-> 2, value |-> 0]
ZERO_ROW == [type_id |-> 0, cause |-> 20, ioa |-> 3, value |-> 1]
SignalRows == {SP_ROW, SP_ROW_2, ZERO_ROW}

\* process_commands that puts a row in front of the pending rows
RECURSIVE process_commands_in_front(_, _, _)
process_commands_in_front(queue, pend, active) ==
    IF queue = <<>> THEN [pending |-> pend, active |-> active]
    ELSE LET command == Head(queue)
         IN  process_commands_in_front(
                 Tail(queue),
                 IF command.action = "send_signal" THEN <<command.row>> \o pend ELSE pend,
                 IF command.action = "set_test_active" THEN command.active ELSE active)

\* _BaseEndpoint._process_commands on a state (pend, active): drains the queue
RECURSIVE process_commands(_, _, _)
process_commands(queue, pend, active) ==
    IF queue = <<>> THEN [pending |-> pend, active |-> active]
    ELSE LET command == Head(queue)
         IN  process_commands(
                 Tail(queue),
                 IF command.action = "send_signal" THEN Append(pend, command.row) ELSE pend,
                 IF command.action = "set_test_active" THEN command.active ELSE active)

\* IEC104ClientProcess._build_signal_frame / IEC104ServerProcess._build_signal_frame
build_signal_frame(e, row) ==
    build_i_frame(sequence[e], recv_sequence[e], row.type_id, row.cause,
                  originator_address, common_address, row.ioa,
                  IF e = "client" /\ row.type_id = 100 /\ row.cause = 6
                  THEN <<20>>
                  ELSE build_information_bytes(row.type_id, row.value))

\* the I-frame of IEC104ServerProcess._send_general_confirmation(conn, cot)
\* when v_s = send_seq and v_r = recv_seq
general_confirmation(send_seq, recv_seq, cot) ==
    build_i_frame(send_seq, recv_seq, 100, cot,
                  originator_address, common_address, 0, <<20>>)

\* sequence numbers on the wire are 15 bits wide
SEQ_MODULUS == 32768

\* I-frames the master has sent on a connection that is about to wrap
WrapStart == SEQ_MODULUS - 2

\* the next value of a sequence counter: "+= 1"
next_seq(n) == n + 1

\* the counters and the parser buffer of the master
client_state ==
    [sequence |-> sequence["client"], recv_sequence |-> recv_sequence["client"],
     buffer |-> parser_buffer]

\* an event as the master publishes it when its counters and parser are st
publish(kind, label, direction, st) ==
    [kind |-> kind, label |-> label, direction |-> direction,
     sequence |-> st.sequence, recv_sequence |-> st.recv_sequence, buffer |-> st.buffer]

\* _connect after connect() has returned: the TCP markers, _send_u_frame(0x07,
\* "STARTDT ACT") and publish_connection_status(True)
connect_events(st) ==
    << publish("tcp", "SYN", "outgoing", st),
       publish("tcp", "SYN ACK", "incoming", st),
       publish("tcp", "ACK", "outgoing", st),
       publish("U", "STARTDT ACT", "outgoing", st),
       publish("status", "connected=true", "", st) >>

\* the counters and the parser after the reset of _connect
fresh_state == [sequence |-> 0, recv_sequence |-> 0, buffer |-> <<>>]

\* _connect that resets the counters and the parser after it has published
connect_resets_late(old) == [state |-> fresh_state, published |-> connect_events(old)]

\* IEC104ClientProcess._connect with a successful connect(): the counters
\* and the parser are reset, then the events are published
connect(old) == [state |-> fresh_state, published |-> connect_events(fresh_state)]

\* run(), an except clause: publish_tcp(text), _close_socket() and
\* publish_connection_status(False)
disconnect_events(st) ==
    << publish("tcp", "text", "incoming", st),
       publish("status", "connected=false", "", st) >>

\* _loop, recv() raises ConnectionResetError or returns no data
reset_events(st) == <<publish("tcp", "RST ACK", "incoming", st)>>

\* _loop after the loop: _close_socket(publish_reset=True) and
\* publish_connection_status(False)
stop_events(st) ==
    << publish("tcp", "RST ACK", "outgoing", st),
       publish("status", "connected=false", "", st) >>

\* the first bytes of a frame, which the peer has not finished
FRAGMENT == <<START_BYTE, 4>>

\* an entry of the slave's log: a frame published as received, or written
log_entry(direction, frame) ==
    [direction |-> direction, frame |-> frame, test_active |-> test_active["server"]]

\* the entries of frames written one after the other
written_entries(fs) == [i \in 1..Len(fs) |-> log_entry("outgoing", fs[i])]

\* the places where a process reads its command queue
AtDrain(e) == pc[e] \in {"run", "listen", "commands"}

\* the process is started: BackendController._start_process.  With foreign
\* peers the two processes do not interact and are run one at a time
StartProcess(e) ==
    /\ UNCHANGED outsideLink
    /\ IF e = "client"
       THEN /\ parser_buffer' = <<>>
            /\ published' = <<>>
            /\ testfr_wait' = None
            /\ UNCHANGED slave_log
       ELSE UNCHANGED connVars
    /\ pc[e] = "off"
    /\ closed_loop \/ pc[Peer(e)] = "off"
    /\ pc' = [pc EXCEPT ![e] = IF e = "client" THEN "run" ELSE "listen"]
    /\ stop_event' = [stop_event EXCEPT ![e] = FALSE]
    /\ sequence' = [sequence EXCEPT ![e] = 0]
    /\ recv_sequence' = [recv_sequence EXCEPT ![e] = 0]
    /\ pending_signals' = [pending_signals EXCEPT ![e] = <<>>]
    /\ command_queue' = [command_queue EXCEPT ![e] = <<>>]
    /\ test_active' = [test_active EXCEPT ![e] = FALSE]
    /\ UNCHANGED <<sock, connected, wire, chunk, closed_loop, rows_left, foreign_open,
                   ack_received, started>>

\* BackendController._stop_process sets the stop event.  The process reads it
\* at the top of its loops and in _flush_pending only, so the steps in between
\* are left out as places where it may be set
RequestStop(e) ==
    /\ UNCHANGED outsideLink
    /\ UNCHANGED connVars
    /\ AtDrain(e) \/ pc[e] = "flush"
    /\ ~stop_event[e]
    /\ stop_event' = [stop_event EXCEPT ![e] = TRUE]
    /\ UNCHANGED <<pc, sock, sequence, recv_sequence, pending_signals, command_queue,
                   test_active, connected, wire, chunk, closed_loop, rows_left, foreign_open,
                   ack_received, started>>

\* the orchestrator enqueues send_signal(row) for the side.  The queue is read
\* only by _process_commands, which empties it, so a command is enqueued when
\* the process is about to read the queue
SendSignal(e, row) ==
    /\ UNCHANGED outsideLink
    /\ UNCHANGED connVars
    /\ AtDrain(e)
    /\ row \in rows_of(e)
    /\ Len(command_queue[e]) < MaxQueue
    /\ rows_left[e] > 0
    /\ rows_left' = [rows_left EXCEPT ![e] = @ - 1]
    /\ command_queue' = [command_queue EXCEPT
                             ![e] = Append(@, [action |-> "send_signal", row |-> row,
                                               active |-> FALSE])]
    /\ UNCHANGED <<pc, stop_event, sock, sequence, recv_sequence, pending_signals,
                   test_active, connected, wire, chunk, closed_loop, foreign_open,
                   ack_received, started>>

\* the orchestrator enqueues set_test_active(active) for the slave, the side
\* that reads the flag
SetTestActive(active) ==
    /\ UNCHANGED outsideLink
    /\ UNCHANGED connVars
    /\ AtDrain("server")
    /\ Len(command_queue["server"]) < MaxQueue
    /\ active # test_active["server"]
    /\ \A i \in 1..Len(command_queue["server"]) :
           command_queue["server"][i].action # "set_test_active"
    /\ command_queue' = [command_queue EXCEPT
                             !["server"] = Append(@, [action |-> "set_test_active",
                                                     row |-> GI_ROW, active |-> active])]
    /\ UNCHANGED <<pc, stop_event, sock, sequence, recv_sequence, pending_signals,
                   test_active, connected, wire, chunk, closed_loop, rows_left, foreign_open,
                   ack_received, started>>

\* IEC104ClientProcess.run, one pass with a successful _connect(): the queued
\* commands are taken over, the counters reset, STARTDT ACT is sent and
\* status connected=true published; in a closed loop the slave must be listening
ClientConnect ==
    /\ UNCHANGED outsideLink
    /\ parser_buffer' = connect(client_state).state.buffer
    /\ published' = connect(client_state).published
    /\ testfr_wait' = None
    /\ UNCHANGED slave_log
    /\ pc["client"] = "run"
    /\ ~stop_event["client"]
    /\ closed_loop => (pc["server"] = "listen" /\ ~sock["server"])
    /\ LET c == process_commands(command_queue["client"], pending_signals["client"],
                                 test_active["client"])
       IN  /\ pending_signals' = [pending_signals EXCEPT !["client"] = c.pending]
           /\ test_active' = [test_active EXCEPT !["client"] = c.active]
    /\ command_queue' = [command_queue EXCEPT !["client"] = <<>>]
    /\ sequence' = [sequence EXCEPT !["client"] = connect(client_state).state.sequence]
    /\ recv_sequence' = [recv_sequence EXCEPT
                             !["client"] = connect(client_state).state.recv_sequence]
    /\ sock' = IF closed_loop THEN [e \in E |-> TRUE] ELSE [sock EXCEPT !["client"] = TRUE]
    /\ wire' = IF closed_loop
               THEN [client |-> <<>>, server |-> <<build_u_frame(7)>>]
               ELSE [wire EXCEPT !["client"] = <<>>]
    /\ foreign_open' = IF closed_loop THEN foreign_open
                       ELSE [foreign_open EXCEPT !["client"] = TRUE]
    /\ connected' = [connected EXCEPT !["client"] = TRUE]
    /\ ack_received' = [ack_received EXCEPT !["client"] = 0]
    /\ started' = [started EXCEPT !["client"] = FALSE]
    /\ pc' = [pc EXCEPT !["client"] = "commands"]
    /\ UNCHANGED <<stop_event, chunk, closed_loop, rows_left>>

\* IEC104ClientProcess.run, one pass in which connect() raises: status
\* connected=false is published and the pass is repeated after RETRY_DELAY
ClientConnectFails ==
    /\ UNCHANGED outsideLink
    /\ parser_buffer' = <<>>
    /\ published' = disconnect_events(fresh_state)
    /\ testfr_wait' = None
    /\ UNCHANGED slave_log
    /\ pc["client"] = "run"
    /\ ~stop_event["client"]
    /\ closed_loop => ~(pc["server"] = "listen" /\ ~sock["server"])
    /\ LET c == process_commands(command_queue["client"], pending_signals["client"],
                                 test_active["client"])
       IN  /\ pending_signals' = [pending_signals EXCEPT !["client"] = c.pending]
           /\ test_active' = [test_active EXCEPT !["client"] = c.active]
    /\ command_queue' = [command_queue EXCEPT !["client"] = <<>>]
    /\ sequence' = [sequence EXCEPT !["client"] = 0]
    /\ recv_sequence' = [recv_sequence EXCEPT !["client"] = 0]
    /\ connected' = [connected EXCEPT !["client"] = FALSE]
    /\ UNCHANGED <<pc, stop_event, sock, wire, chunk, closed_loop, rows_left, foreign_open,
                   ack_received, started>>

\* the process ends: run() finds the stop event set (client: also at the top of
\* _loop, where the socket is closed and status connected=false published;
\* server: at the top of the loop of _handle_connection, likewise)
Exit(e) ==
    /\ UNCHANGED outsideLink
    /\ published' = IF e = "client" /\ pc[e] = "commands"
                     THEN published \o stop_events(client_state) ELSE published
    /\ UNCHANGED <<parser_buffer, testfr_wait, slave_log>>
    /\ AtDrain(e)
    /\ stop_event[e]
    /\ pc' = [pc EXCEPT ![e] = "exited"]
    /\ sock' = [sock EXCEPT ![e] = FALSE]
    /\ wire' = [wire EXCEPT ![e] = <<>>]
    /\ connected' = [connected EXCEPT ![e] = IF pc[e] = "commands" THEN FALSE ELSE @]
    /\ UNCHANGED <<stop_event, sequence, recv_sequence, pending_signals, command_queue,
                   test_active, chunk, closed_loop, rows_left, foreign_open, ack_received, started>>

\* IEC104ServerProcess.run: accept() times out, the queued commands are taken over
ServerAcceptTimeout ==
    /\ UNCHANGED outsideLink
    /\ UNCHANGED connVars
    /\ pc["server"] = "listen"
    /\ ~stop_event["server"]
    /\ ~sock["server"]
    /\ command_queue["server"] # <<>>
    /\ LET c == process_commands(command_queue["server"], pending_signals["server"],
                                 test_active["server"])
       IN  /\ pending_signals' = [pending_signals EXCEPT !["server"] = c.pending]
           /\ test_active' = [test_active EXCEPT !["server"] = c.active]
    /\ command_queue' = [command_queue EXCEPT !["server"] = <<>>]
    /\ UNCHANGED <<pc, stop_event, sock, sequence, recv_sequence, connected, wire,
                   chunk, closed_loop, rows_left, foreign_open, ack_received, started>>

\* IEC104ServerProcess.run accepts the connection and _handle_connection starts:
\* the counters are reset and status connected=true is published
ServerAccept ==
    /\ UNCHANGED outsideLink
    /\ UNCHANGED connVars
    /\ pc["server"] = "listen"
    /\ ~stop_event["server"]
    /\ sock["server"]
    /\ sequence' = [sequence EXCEPT !["server"] = 0]
    /\ recv_sequence' = [recv_sequence EXCEPT !["server"] = 0]
    /\ connected' = [connected EXCEPT !["server"] = TRUE]
    /\ ack_received' = [ack_received EXCEPT !["server"] = 0]
    /\ started' = [started EXCEPT !["server"] = FALSE]
    /\ pc' = [pc EXCEPT !["server"] = "commands"]
    /\ UNCHANGED <<stop_event, sock, pending_signals, command_queue, test_active, wire,
                   chunk, closed_loop, rows_left, foreign_open>>

\* top of the loop of _loop / _handle_connection: _process_commands()
ProcessCommands(e) ==
    /\ UNCHANGED outsideLink
    /\ slave_log' = IF e = "server" THEN <<>> ELSE slave_log
    /\ UNCHANGED <<parser_buffer, published, testfr_wait>>
    /\ pc[e] = "commands"
    /\ ~stop_event[e]
    /\ LET c == process_commands(command_queue[e], pending_signals[e], test_active[e])
       IN  /\ pending_signals' = [pending_signals EXCEPT ![e] = c.pending]
           /\ test_active' = [test_active EXCEPT ![e] = c.active]
    /\ command_queue' = [command_queue EXCEPT ![e] = <<>>]
    /\ pc' = [pc EXCEPT ![e] = "flush"]
    /\ UNCHANGED <<stop_event, sock, sequence, recv_sequence, connected, wire, chunk,
                   closed_loop, rows_left, foreign_open, ack_received, started>>

\* _flush_pending, one pass of its loop: the first pending row is popped and
\* _send_signal_from_row sends it as an I-frame and increments v_s
FlushRow(e) ==
    /\ UNCHANGED outsideLink
    /\ pc[e] = "flush"
    /\ pending_signals[e] # <<>>
    /\ ~stop_event[e]
    /\ pending_signals' = [pending_signals EXCEPT ![e] = Tail(@)]
    /\ wire' = sendall(e, <<build_signal_frame(e, Head(pending_signals[e]))>>)
    /\ sequence' = [sequence EXCEPT ![e] = next_seq(@)]
    /\ UNCHANGED <<pc, stop_event, sock, recv_sequence, command_queue, test_active,
                   connected, chunk, closed_loop, rows_left, foreign_open, ack_received, started>>
    /\ slave_log' = IF e = "server" /\ ~closed_loop
                     THEN slave_log
                              \o written_entries(<<build_signal_frame(e, Head(pending_signals[e]))>>)
                     ELSE slave_log
    /\ UNCHANGED <<parser_buffer, published, testfr_wait>>

\* the orchestrator enqueues send_signal(row) for the side, as SendSignal,
\* and the row is noted
EnqueueSignal(e, row) ==
    /\ UNCHANGED outsideSignals
    /\ UNCHANGED connVars
    /\ AtDrain(e)
    /\ Len(command_queue[e]) < MaxQueue
    /\ rows_left[e] > 0
    /\ rows_left' = [rows_left EXCEPT ![e] = @ - 1]
    /\ command_queue' = [command_queue EXCEPT
                             ![e] = Append(@, [action |-> "send_signal", row |-> row,
                                               active |-> FALSE])]
    /\ signal_log' = [signal_log EXCEPT ![e].enqueued = Append(@, row)]
    /\ UNCHANGED <<pc, stop_event, sock, sequence, recv_sequence, pending_signals,
                   test_active, connected, wire, chunk, closed_loop, foreign_open,
                   ack_received, started>>

\* the events with one more, a run of equal events kept once
noted(evs, label) ==
    IF evs # <<>> /\ evs[Len(evs)] = label THEN evs ELSE Append(evs, label)

\* what _send_signal_from_row does with the row popped by _flush_pending:
\* the master without a socket puts it back; a row with type_id <= 0 is
\* dropped; sendall raises on a socket on which it has raised before, and may
\* raise once the peer has closed or reset the connection, and then the row
\* is put back and "Senden fehlgeschlagen" is published; else the I-frame is
\* written, published, and v_s incremented
send_outcome(e, row, ok) ==
    IF e = "client" /\ ~sock[e] THEN "no socket"
    ELSE IF row.type_id <= 0 THEN "dropped"
    ELSE IF signal_log[e].raised \/ (~peer_open(e) /\ ~ok) THEN "raised"
    ELSE "sent"

\* _flush_pending, one pass of its loop, with a sendall that may raise
FlushSignal(e, ok) ==
    /\ UNCHANGED outsideSignals
    /\ pc[e] = "flush"
    /\ pending_signals[e] # <<>>
    /\ ~stop_event[e]
    /\ LET row == Head(pending_signals[e])
           outcome == send_outcome(e, row, ok)
           label == IF outcome = "sent" THEN "I" ELSE "Senden fehlgeschlagen"
       IN  /\ pending_signals' = [pending_signals EXCEPT
                                      ![e] = IF outcome \in {"no socket", "raised"}
                                             THEN <<row>> \o Tail(@) ELSE Tail(@)]
           /\ wire' = IF outcome = "sent" THEN sendall(e, <<build_signal_frame(e, row)>>)
                      ELSE wire
           /\ sequence' = [sequence EXCEPT
                               ![e] = IF outcome = "sent" THEN next_seq(@) ELSE @]
           /\ signal_log' = [signal_log EXCEPT
                                 ![e] = [enqueued |-> @.enqueued,
                                         sent |-> IF outcome = "sent"
                                                  THEN Append(@.sent, row) ELSE @.sent,
                                         events |-> IF outcome \in {"sent", "raised"}
                                                    THEN noted(@.events, label)
                                                    ELSE @.events,
                                         raised |-> @.raised \/ outcome = "raised"]]
           /\ published' = IF e = "client" /\ outcome = "raised"
                                /\ (published = <<>>
                                    \/ published[Len(published)].label
                                           # "Senden fehlgeschlagen")
                           THEN Append(published,
                                       publish("tcp", "Senden fehlgeschlagen", "outgoing",
                                               client_state))
                           ELSE published
    /\ UNCHANGED <<pc, stop_event, sock, recv_sequence, command_queue, test_active,
                   connected, chunk, closed_loop, rows_left, foreign_open, ack_received,
                   started>>
    /\ UNCHANGED <<parser_buffer, testfr_wait, slave_log>>

\* _flush_pending returns: nothing is pending, or the stop event is set
FlushDone(e) ==
    /\ UNCHANGED outsideLink
    /\ UNCHANGED connVars
    /\ pc[e] = "flush"
    /\ pending_signals[e] = <<>> \/ stop_event[e]
    /\ pc' = [pc EXCEPT ![e] = "select"]
    /\ UNCHANGED <<stop_event, sock, sequence, recv_sequence, pending_signals,
                   command_queue, test_active, connected, wire, chunk, closed_loop, rows_left,
                   foreign_open, ack_received, started>>

\* select() reports data and recv() returns n complete frames
Recv(e, n) ==
    /\ UNCHANGED outsideLink
    /\ UNCHANGED connVars
    /\ pc[e] = "select"
    /\ n \in 1..Len(wire[e])
    /\ chunk' = [chunk EXCEPT ![e] = n]
    /\ pc' = [pc EXCEPT ![e] = "frames"]
    /\ UNCHANGED <<stop_event, sock, sequence, recv_sequence, pending_signals,
                   command_queue, test_active, connected, wire, closed_loop, rows_left,
                   foreign_open, ack_received, started>>

\* select() times out after 1 s without data
SelectTimeout(e) ==
    /\ UNCHANGED outsideLink
    /\ testfr_wait' = IF e = "client" /\ testfr_wait \notin {None, T1_TICKS}
                       THEN testfr_wait + 1 ELSE testfr_wait
    /\ UNCHANGED <<parser_buffer, published, slave_log>>
    /\ pc[e] = "select"
    /\ wire[e] = <<>>
    /\ peer_open(e)
    /\ pc' = [pc EXCEPT ![e] = IF e = "client" THEN "keepalive" ELSE "commands"]
    /\ UNCHANGED <<stop_event, sock, sequence, recv_sequence, pending_signals,
                   command_queue, test_active, connected, wire, chunk, closed_loop, rows_left,
                   foreign_open, ack_received, started>>

\* recv() returns no data: the peer has closed.  The client raises
\* ConnectionError, run() closes the socket, publishes status connected=false
\* and retries; the server leaves _handle_connection, publishes status
\* connected=false and listens again
PeerClosed(e) ==
    /\ UNCHANGED outsideLink
    /\ published' = IF e = "client"
                     THEN published \o reset_events(client_state)
                              \o disconnect_events(client_state)
                     ELSE published
    /\ UNCHANGED <<parser_buffer, testfr_wait, slave_log>>
    /\ pc[e] = "select"
    /\ wire[e] = <<>>
    /\ ~peer_open(e)
    /\ sock' = [sock EXCEPT ![e] = FALSE]
    /\ connected' = [connected EXCEPT ![e] = FALSE]
    /\ pc' = [pc EXCEPT ![e] = IF e = "client" THEN "run" ELSE "listen"]
    /\ UNCHANGED <<stop_event, sequence, recv_sequence, pending_signals, command_queue,
                   test_active, wire, chunk, closed_loop, rows_left, foreign_open, ack_received,
                   started>>

\* is_interrogation that does not look at the test mode
is_interrogation_in_test(e, telegram) ==
    /\ e = "server"
    /\ telegram.frame_family = "I"
    /\ telegram.type_id = 100
    /\ telegram.cause = 6

\* the slave answers this frame with a general-interrogation response
is_interrogation(e, telegram) ==
    /\ e = "server"
    /\ telegram.frame_family = "I"
    /\ telegram.type_id = 100
    /\ telegram.cause = 6
    /\ ~test_active[e]

\* u_replies that confirms the start of data transfer for every U-frame
u_replies_to_any(e, telegram) ==
    IF e = "server" /\ telegram.frame_family = "U"
    THEN <<build_u_frame(11)>>
    ELSE <<>>

\* the U-frames the slave sends in answer to a decoded U-frame
u_replies(e, telegram) ==
    IF e = "server" /\ telegram.frame_family = "U"
    THEN (IF telegram.label = "STARTDT ACT" THEN <<build_u_frame(11)>> ELSE <<>>)
         \o (IF telegram.label = "TESTFR ACT" THEN <<build_u_frame(131)>> ELSE <<>>)
    ELSE <<>>

\* i_replies with the acknowledgement built before v_r is incremented
i_replies_stale_ack(e, telegram, recv_seq) ==
    IF telegram.frame_family = "I"
    THEN (IF is_interrogation(e, telegram)
          THEN <<general_confirmation(sequence[e], recv_seq, 7),
                 general_confirmation(next_seq(sequence[e]), recv_seq, 10)>>
          ELSE <<>>)
         \o <<build_s_frame(recv_seq - 1)>>
    ELSE <<>>

\* what the side sends after an I-frame, v_r being already incremented to
\* recv_seq: the slave's interrogation response (COT 7, then COT 10, with
\* consecutive send sequence numbers), then the S-frame (_send_s_frame)
i_replies(e, telegram, recv_seq) ==
    IF telegram.frame_family = "I"
    THEN (IF is_interrogation(e, telegram)
          THEN <<general_confirmation(sequence[e], recv_seq, 7),
                 general_confirmation(next_seq(sequence[e]), recv_seq, 10)>>
          ELSE <<>>)
         \o <<build_s_frame(recv_seq)>>
    ELSE <<>>

\* everything the side writes for one received frame, in order
replies(e, frame) ==
    LET telegram == decode_frame(frame)
    IN  u_replies(e, telegram)
            \o i_replies(e, telegram,
                         IF telegram.frame_family = "I"
                         THEN next_seq(recv_sequence[e]) ELSE recv_sequence[e])

\* the body of "for frame in self._parser.feed(data)" for one frame:
\* decode_frame, publish_frame, then the replies of the side.  An I-frame
\* increments v_r and is acknowledged with an S-frame at once; the slave
\* answers STARTDT ACT, TESTFR ACT and, outside a test, a general interrogation
HandleFrame(e) ==
    /\ UNCHANGED outsideLink
    /\ pc[e] = "frames"
    /\ LET frame == Head(wire[e])
           telegram == decode_frame(frame)
           recv_seq == IF telegram.frame_family = "I"
                       THEN next_seq(recv_sequence[e]) ELSE recv_sequence[e]
           sent == sendall(e, replies(e, frame))
       IN  /\ recv_sequence' = [recv_sequence EXCEPT ![e] = recv_seq]
           /\ sequence' = [sequence EXCEPT
                               ![e] = IF is_interrogation(e, telegram)
                                      THEN next_seq(next_seq(@)) ELSE @]
           /\ wire' = [sent EXCEPT ![e] = Tail(@)]
           /\ ack_received' = [ack_received EXCEPT
                                   ![e] = IF telegram.frame_family \in {"I", "S"}
                                          THEN extract_sequences(frame).recv ELSE @]
           /\ started' = [started EXCEPT
                              ![e] = \/ @
                                     \/ /\ telegram.frame_family = "U"
                                        /\ telegram.label =
                                               (IF e = "client" THEN "STARTDT CON"
                                                                ELSE "STARTDT ACT")]
    /\ chunk' = [chunk EXCEPT ![e] = @ - 1]
    /\ pc' = [pc EXCEPT ![e] = IF chunk[e] > 1 THEN "frames"
                               ELSE IF e = "client" THEN "keepalive" ELSE "commands"]
    /\ testfr_wait' = IF e = "client" /\ decode_frame(Head(wire[e])).label = "TESTFR CON"
                       THEN None ELSE testfr_wait
    /\ slave_log' = IF e = "server" /\ ~closed_loop
                     THEN <<log_entry("incoming", Head(wire[e]))>>
                              \o written_entries(replies(e, Head(wire[e])))
                     ELSE slave_log
    /\ UNCHANGED <<parser_buffer, published>>
    /\ UNCHANGED <<stop_event, sock, pending_signals, command_queue, test_active,
                   connected, closed_loop, rows_left, foreign_open>>

\* end of one pass of IEC104ClientProcess._loop: after KEEPALIVE_INTERVAL
\* without one, a TESTFR ACT is sent
Keepalive(due) ==
    /\ UNCHANGED outsideLink
    /\ testfr_wait' = IF due /\ ~closed_loop /\ testfr_wait = None THEN 0 ELSE testfr_wait
    /\ UNCHANGED <<parser_buffer, published, slave_log>>
    /\ pc["client"] = "keepalive"
    /\ due => Len(wire["server"]) < MaxWire
    /\ wire' = IF due THEN sendall("client", <<build_u_frame(67)>>) ELSE wire
    /\ pc' = [pc EXCEPT !["client"] = "commands"]
    /\ UNCHANGED <<stop_event, sock, sequence, recv_sequence, pending_signals,
                   command_queue, test_active, connected, chunk, closed_loop, rows_left,
                   foreign_open, ack_received, started>>

(***************************************************************************)
(* Foreign peers: the device under test at the other end of each socket    *)
(***************************************************************************)
\* frames a foreign peer may write: start confirmations and I-frames with
\* the send sequence numbers 0 and 1
ForeignFrames ==
    { build_u_frame(7), build_u_frame(11),
      build_i_frame(0, 0, 1, 3, 0, 0, 1, <<1>>),
      build_i_frame(1, 0, 1, 3, 0, 0, 1, <<1>>) }

\* a foreign master connects to the listening slave
ForeignConnect ==
    /\ UNCHANGED outsideLink
    /\ UNCHANGED connVars
    /\ ~closed_loop
    /\ pc["server"] = "listen"
    /\ ~stop_event["server"]
    /\ ~sock["server"]
    /\ sock' = [sock EXCEPT !["server"] = TRUE]
    /\ foreign_open' = [foreign_open EXCEPT !["server"] = TRUE]
    /\ wire' = [wire EXCEPT !["server"] = <<>>]
    /\ UNCHANGED <<pc, stop_event, sequence, recv_sequence, pending_signals,
                   command_queue, test_active, connected, chunk, closed_loop, rows_left,
                   ack_received, started>>

\* the foreign peer of the side writes a frame
ForeignSend(e, frame) ==
    /\ UNCHANGED outsideLink
    /\ e = "client" => parser_buffer = <<>>
    /\ UNCHANGED connVars
    /\ ~closed_loop
    /\ sock[e]
    /\ foreign_open[e]
    /\ recv_sequence[e] + Len(wire[e]) < MaxForeign
    /\ wire' = [wire EXCEPT ![e] = Append(@, frame)]
    /\ UNCHANGED <<pc, stop_event, sock, sequence, recv_sequence, pending_signals,
                   command_queue, test_active, connected, chunk, closed_loop, rows_left,
                   foreign_open, ack_received, started>>

\* the foreign peer of the side closes the connection
ForeignClose(e) ==
    /\ UNCHANGED outsideLink
    /\ UNCHANGED connVars
    /\ ~closed_loop
    /\ foreign_open[e]
    /\ foreign_open' = [foreign_open EXCEPT ![e] = FALSE]
    /\ UNCHANGED <<pc, stop_event, sock, sequence, recv_sequence, pending_signals,
                   command_queue, test_active, connected, wire, chunk, closed_loop, rows_left>>
    /\ UNCHANGED <<ack_received, started>>

\* the frames the peer of the master may write: the confirmations of STARTDT
\* and TESTFR and an I-frame
MasterPeerFrames ==
    { build_u_frame(11), build_u_frame(131), build_i_frame(0, 0, 1, 3, 0, 0, 1, <<1>>) }

\* the peer of the master has written the first bytes of a frame and no
\* more: recv() returns them, feed() keeps them and returns no frame
RecvFragment ==
    /\ UNCHANGED outsideLink
    /\ ~closed_loop
    /\ pc["client"] = "select"
    /\ foreign_open["client"]
    /\ wire["client"] = <<>>
    /\ parser_buffer = <<>>
    /\ feed(parser_buffer, FRAGMENT).frames = <<>>
    /\ parser_buffer' = feed(parser_buffer, FRAGMENT).buffer
    /\ pc' = [pc EXCEPT !["client"] = "keepalive"]
    /\ UNCHANGED <<stop_event, sock, sequence, recv_sequence, pending_signals,
                   command_queue, test_active, connected, wire, chunk, closed_loop, rows_left,
                   foreign_open, ack_received, started, published, testfr_wait, slave_log>>

\* recv() raises an OSError that is not a ConnectionResetError (the
\* connection timed out, the network is down, the connection was aborted):
\* the exception leaves _loop, and run() publishes a text, closes the socket,
\* publishes status connected=false and retries after RETRY_DELAY
RecvError ==
    /\ UNCHANGED outsideLink
    /\ ~closed_loop
    /\ pc["client"] = "select"
    /\ sock' = [sock EXCEPT !["client"] = FALSE]
    /\ connected' = [connected EXCEPT !["client"] = FALSE]
    /\ published' = published \o disconnect_events(client_state)
    /\ pc' = [pc EXCEPT !["client"] = "run"]
    /\ UNCHANGED <<stop_event, sequence, recv_sequence, pending_signals, command_queue,
                   test_active, wire, chunk, closed_loop, rows_left, foreign_open, ack_received,
                   started, parser_buffer, testfr_wait, slave_log>>

\* the frames a foreign master may write to the slave: STARTDT ACT, TESTFR
\* ACT, STOPDT ACT, a general interrogation and a single command
SlavePeerFrames ==
    { build_u_frame(7), build_u_frame(67), build_u_frame(19),
      build_i_frame(0, 0, 100, 6, 0, 0, 0, <<20>>),
      build_i_frame(0, 0, 45, 6, 0, 0, 1, <<1>>) }

\* the slave cannot write a reply: the master has closed or reset the
\* connection and conn.sendall raises in _send_u_frame,
\* _send_general_confirmation or _send_s_frame after k replies to the frame
\* were written.  Neither _handle_connection nor run() catches the
\* exception: "with conn" and "with socket" close the sockets and the
\* process ends; no status event is published
ReplyFails(k) ==
    /\ UNCHANGED outsideLink
    /\ ~closed_loop
    /\ pc["server"] = "frames"
    /\ ~foreign_open["server"]
    /\ k < Len(replies("server", Head(wire["server"])))
    /\ LET frame == Head(wire["server"])
           telegram == decode_frame(frame)
       IN  /\ recv_sequence' = [recv_sequence EXCEPT
                                    !["server"] = IF telegram.frame_family = "I"
                                                  THEN next_seq(@) ELSE @]
           /\ sequence' = [sequence EXCEPT
                               !["server"] = IF is_interrogation("server", telegram)
                                             THEN (IF k = 0 THEN @
                                                   ELSE IF k = 1 THEN next_seq(@)
                                                   ELSE next_seq(next_seq(@)))
                                             ELSE @]
           /\ slave_log' = <<log_entry("incoming", frame)>>
                               \o written_entries(SubSeq(replies("server", frame), 1, k))
    /\ pc' = [pc EXCEPT !["server"] = "crashed"]
    /\ sock' = [sock EXCEPT !["server"] = FALSE]
    /\ wire' = [wire EXCEPT !["server"] = <<>>]
    /\ chunk' = [chunk EXCEPT !["server"] = 0]
    /\ UNCHANGED <<stop_event, pending_signals, command_queue, test_active, connected,
                   closed_loop, rows_left, foreign_open, ack_received, started,
                   parser_buffer, published, testfr_wait>>

(***************************************************************************)
(* Test runner: PruefungRunner and TeilpruefungRecorder in main.py          *)
(*                                                                         *)
(* The runner thread executes _run(); abort() is called from a request     *)
(* thread at any time.  Everything done under PruefungRunner._lock is one  *)
(* step; the reads of _stop_event in _run() are steps of their own.        *)
(***************************************************************************)
\* the statuses of a sub-test ("Wird durchgefuehrt" is written with u-umlaut)
QUEUED == "In Warteschlange"
PREPARING == "Vorbereiten"
RUNNING == "Wird durchgefuehrt"
COMPLETED == "Abgeschlossen"
ABORTED == "Abgebrochen"

\* a cell of the signal list whose text int() rejects
NotANumber == 0 - 2

\* _mark_all_aborted_locked with only the sub-tests that have left the queue marked
mark_started_aborted(teilpruefungen) ==
    [i \in 1..Len(teilpruefungen) |->
        IF teilpruefungen[i] \in {COMPLETED, QUEUED} THEN teilpruefungen[i] ELSE ABORTED]

\* PruefungRunner._mark_all_aborted_locked on the list of statuses
mark_all_aborted_locked(teilpruefungen) ==
    [i \in 1..Len(teilpruefungen) |->
        IF teilpruefungen[i] # COMPLETED THEN ABORTED ELSE teilpruefungen[i]]

\* PruefungRunner._set_status on the run state
set_status(run, i, status) ==
    IF run.exists /\ i \in 1..Len(run.teilpruefungen)
    THEN [run EXCEPT !.teilpruefungen[i] = status]
    ELSE run

\* PruefungRunner._mark_all_aborted on the run state
mark_all_aborted(run) ==
    IF run.exists
    THEN [run EXCEPT !.teilpruefungen = mark_all_aborted_locked(@)]
    ELSE run

\* no run has been started: PruefungRunner.__init__ (an "aborted" key that is
\* not set reads as false)
no_run == [exists |-> FALSE, teilpruefungen |-> <<>>, finished |-> FALSE, aborted |-> FALSE]

\* str.upper() on one character of a cell text
upper(c) == IF c = "q" THEN "Q" ELSE IF c = "s" THEN "S" ELSE c

\* _should_send_from that looks for the capital letter only
should_send_from_exact(value) == \E i \in 1..Len(value) : value[i] = "Q"

\* PruefungRunner._should_send_from on a cell text, a sequence of characters
\* (an empty cell is the empty text)
should_send_from(value) == \E i \in 1..Len(value) : upper(value[i]) = "Q"

\* the sides one row is sent from: the master if the NLS column says so, then
\* the slave if the FWK column says so
sides_of(row) ==
    (IF should_send_from(row.nls) THEN <<"client">> ELSE <<>>)
        \o (IF should_send_from(row.fwk) THEN <<"server">> ELSE <<>>)

\* _build_signal_segments, first loop: the list "sequence" of side/row entries
RECURSIVE flat_sequence(_)
flat_sequence(rs) ==
    IF rs = <<>> THEN <<>>
    ELSE [i \in 1..Len(sides_of(Head(rs))) |->
              [side |-> sides_of(Head(rs))[i], row |-> Head(rs)]]
         \o flat_sequence(Tail(rs))

\* _build_signal_segments, second loop: an entry joins the last segment if
\* that has the entry's side, else it opens a segment
RECURSIVE coalesce(_, _)
coalesce(sequence_, segs) ==
    IF sequence_ = <<>> THEN segs
    ELSE LET entry == Head(sequence_)
             n == Len(segs)
         IN  coalesce(Tail(sequence_),
                      IF n > 0 /\ segs[n].side = entry.side
                      THEN [segs EXCEPT ![n].rows = Append(@, entry.row)]
                      ELSE Append(segs, [side |-> entry.side, rows |-> <<entry.row>>]))

\* PruefungRunner._build_signal_segments
build_signal_segments(rs) == coalesce(flat_sequence(rs), <<>>)

\* int(row.get("IEC104- Typ", 0) or 0) raises ValueError
signature_raises(row) == row.typ = NotANumber

\* PruefungRunner._expected_signature for a row whose cells are numbers: None
\* (the empty tuple here) for a type that is not positive, else
\* (type_id, cause, ioa) with cause 20 for an empty or zero cause cell
expected_signature(row) ==
    IF row.typ <= 0 THEN <<>>
    ELSE <<row.typ, IF row.cause = 0 THEN 20 ELSE row.cause, row.ioa % 256>>

\* the signatures of the rows, in order, without the None ones
RECURSIVE signatures(_)
signatures(rs) ==
    IF rs = <<>> THEN <<>>
    ELSE (IF expected_signature(Head(rs)) = <<>> THEN <<>>
          ELSE <<expected_signature(Head(rs))>>) \o signatures(Tail(rs))

\* TeilpruefungRecorder.__init__
idle_recorder ==
    [active |-> FALSE, recording_started |-> FALSE, teil_index |-> 0,
     started_at |-> 0, entries |-> <<>>]

\* TeilpruefungRecorder.begin
recorder_begin(rec, teil_index) ==
    [active |-> TRUE, recording_started |-> FALSE, teil_index |-> teil_index,
     started_at |-> 0, entries |-> <<>>]

\* TeilpruefungRecorder.mark_signal_sent at time t: the first one starts the recording
mark_signal_sent(rec, t) ==
    IF rec.active /\ ~rec.recording_started
    THEN [rec EXCEPT !.recording_started = TRUE, !.started_at = t]
    ELSE rec

\* TeilpruefungRecorder.observe for an event of the backend's queue
observe(rec, event) ==
    IF ~rec.active \/ ~rec.recording_started THEN rec
    ELSE IF event.type # "telegram" THEN rec
    ELSE IF event.ts < rec.started_at THEN rec
    ELSE IF event.side \notin {"client", "server"} THEN rec
    ELSE [rec EXCEPT !.entries = Append(@, event)]

\* pending_list without every entry equal to the signature
remove_all(pending_list, signature) ==
    LET keep == {i \in 1..Len(pending_list) : pending_list[i] # signature}
        nth(k) == CHOOSE i \in keep : Cardinality({j \in keep : j <= i}) = k
    IN  [k \in 1..Cardinality(keep) |-> pending_list[nth(k)]]

\* _pull_events, lines 1000-1003: the first entry equal to the signature is
\* popped from the list
remove_first(pending_list, signature) ==
    IF \E i \in 1..Len(pending_list) : pending_list[i] = signature
    THEN LET first == CHOOSE i \in 1..Len(pending_list) :
                          /\ pending_list[i] = signature
                          /\ \A j \in 1..(i - 1) : pending_list[j] # signature
         IN  SubSeq(pending_list, 1, first - 1)
                 \o SubSeq(pending_list, first + 1, Len(pending_list))
    ELSE pending_list

\* the event is an incoming I-frame telegram that _pull_events does not skip
is_counted(event, from) ==
    /\ event.type = "telegram"
    /\ event.frame_family = "I"
    /\ event.direction = "incoming"
    /\ ~(from # None /\ event.ts < from)

\* the body of the loop of _pull_events for one event.  st holds the recorder,
\* _incoming_counts and the pending lists; given says that the caller passed
\* pending lists, from is consider_from
pull_event(st, event, given, from) ==
    LET side == event.side
        signature == <<event.type_id, event.cause, event.ioa>>
    IN  [recorder |-> observe(st.recorder, event),
         incoming_counts |->
             IF is_counted(event, from) /\ side \in DOMAIN st.incoming_counts
             THEN [st.incoming_counts EXCEPT ![side] = @ + 1]
             ELSE st.incoming_counts,
         pending |->
             IF /\ is_counted(event, from)
                /\ given
                /\ side \in DOMAIN st.pending
                /\ event.type_id # None
             THEN [st.pending EXCEPT ![side] = remove_first(@, signature)]
             ELSE st.pending]

\* PruefungRunner._pull_events: every queued event is taken from the queue
RECURSIVE pull_events(_, _, _, _)
pull_events(st, queue, given, from) ==
    IF queue = <<>> THEN st
    ELSE pull_events(pull_event(st, Head(queue), given, from), Tail(queue), given, from)

\* _wait_for_turn that returns as soon as the incoming count has reached its target
turn_done_by_count(pending_list, expected_target) == expected_target = None

\* _wait_for_turn, line 1020: nothing is pending for the side and its
\* expected count is reached
turn_done(pending_list, expected_target) ==
    pending_list = <<>> /\ expected_target = None

\* the locals of _dispatch_signals while it is not running
no_pending == [client |-> <<>>, server |-> <<>>]
no_expected_counts == [client |-> None, server |-> None]
no_incoming_counts == [client |-> 0, server |-> 0]

\* no recording file
no_recording == [written |-> FALSE, aborted |-> FALSE, entries |-> <<>>]

\* TeilpruefungRecorder.finish: the files after the recording is written
finish(files, rec, is_aborted) ==
    IF rec.active
    THEN [files EXCEPT ![rec.teil_index] =
              [written |-> TRUE, aborted |-> is_aborted, entries |-> rec.entries]]
    ELSE files

\* the side that does not send the segment
other_side(side) == IF side = "client" THEN "server" ELSE "client"

\* the locals of _dispatch_signals are not in use
dispatch_idle ==
    /\ segments' = <<>>
    /\ seg' = 0
    /\ pending' = no_pending
    /\ expected_counts' = no_expected_counts
    /\ consider_from' = None
    /\ waited' = FALSE

\* the locals of _dispatch_signals and the history of the run stay as they are
dispatch_unchanged == UNCHANGED <<segments, seg, pending, expected_counts, consider_from, waited>>

\* PruefungRunner.start: a run with n sub-tests with the signal list rs each;
\* the stop flag is fresh and the runner thread is started
Start(n, rs) ==
    /\ UNCHANGED outsideRunner
    /\ run_pc = "idle"
    /\ runner_stop_event' = FALSE
    /\ current_run' = [exists |-> TRUE, teilpruefungen |-> [i \in 1..n |-> QUEUED],
                       finished |-> FALSE, aborted |-> FALSE]
    /\ rows' = rs
    /\ run_pc' = "setup"
    /\ dispatch_unchanged
    /\ UNCHANGED <<index, aborted, rows_todo, signals_sent, recorder, recordings, events,
                   now, pruefprotokoll, abort_at, incoming_counts, raised>>

\* PruefungRunner.abort: under the lock, the stop flag is set and every
\* sub-test that is not completed is marked aborted
Abort ==
    /\ UNCHANGED outsideRunner
    /\ current_run.exists
    /\ runner_stop_event' = TRUE
    /\ current_run' = [current_run EXCEPT !.teilpruefungen = mark_all_aborted_locked(@)]
    /\ abort_at' = IF abort_at[1] = "none" THEN <<run_pc, index>> ELSE abort_at
    /\ dispatch_unchanged
    /\ UNCHANGED <<run_pc, index, aborted, rows, rows_todo, signals_sent, recorder,
                   recordings, events, now, pruefprotokoll, incoming_counts, raised>>

\* an endpoint publishes an event, stamped with the time
TelegramEvent(event) ==
    /\ UNCHANGED outsideRunner
    /\ run_pc \notin {"idle", "done"}
    /\ Len(events) + Len(recorder.entries) < MaxEvents
    /\ events' = Append(events, [event EXCEPT !.ts = now])
    /\ dispatch_unchanged
    /\ UNCHANGED <<run_pc, index, current_run, runner_stop_event, aborted, rows, rows_todo,
                   signals_sent, recorder, recordings, now, pruefprotokoll, abort_at,
                   incoming_counts, raised>>

\* _run up to the loop: the endpoints are started and test mode switched on
RunSetup ==
    /\ UNCHANGED outsideRunner
    /\ run_pc = "setup"
    /\ aborted' = FALSE
    /\ index' = 1
    /\ run_pc' = IF Len(current_run.teilpruefungen) = 0 THEN "finally" ELSE "begin"
    /\ dispatch_unchanged
    /\ UNCHANGED <<current_run, runner_stop_event, rows, rows_todo, signals_sent, recorder,
                   recordings, events, now, pruefprotokoll, abort_at, incoming_counts, raised>>

\* the sub-test is given up: aborted = True, recorder.finish(aborted=True), break
give_up(rec) ==
    /\ aborted' = TRUE
    /\ recordings' = finish(recordings, rec, TRUE)
    /\ recorder' = [rec EXCEPT !.active = FALSE]
    /\ run_pc' = "finally"

\* top of the loop body: recorder.begin, then the first read of the stop flag
Begin ==
    /\ UNCHANGED outsideRunner
    /\ run_pc = "begin"
    /\ IF runner_stop_event
       THEN give_up(recorder_begin(recorder, index))
       ELSE /\ recorder' = recorder_begin(recorder, index)
            /\ run_pc' = "prepare"
            /\ UNCHANGED <<aborted, recordings>>
    /\ dispatch_unchanged
    /\ UNCHANGED <<index, current_run, runner_stop_event, rows, rows_todo, signals_sent,
                   events, now, pruefprotokoll, abort_at, incoming_counts, raised>>

\* _set_status(index, "Vorbereiten"); _wait_or_abort starts
SetPreparing ==
    /\ UNCHANGED outsideRunner
    /\ run_pc = "prepare"
    /\ current_run' = set_status(current_run, index, PREPARING)
    /\ run_pc' = "pause"
    /\ dispatch_unchanged
    /\ UNCHANGED <<index, runner_stop_event, aborted, rows, rows_todo, signals_sent,
                   recorder, recordings, events, now, pruefprotokoll, abort_at,
                   incoming_counts, raised>>

\* _wait_or_abort finds the stop flag set: the sub-test and all others that
\* are not completed are marked aborted, and _run gives the sub-test up
PauseAbort ==
    /\ UNCHANGED outsideRunner
    /\ run_pc = "pause"
    /\ runner_stop_event
    /\ current_run' = mark_all_aborted(set_status(current_run, index, ABORTED))
    /\ give_up(recorder)
    /\ dispatch_unchanged
    /\ UNCHANGED <<index, runner_stop_event, rows, rows_todo, signals_sent, events, now,
                   pruefprotokoll, abort_at, incoming_counts, raised>>

\* the last wait of _wait_or_abort times out with the stop flag not set
PauseElapsed ==
    /\ UNCHANGED outsideRunner
    /\ run_pc = "pause"
    /\ ~runner_stop_event
    /\ run_pc' = "paused"
    /\ dispatch_unchanged
    /\ UNCHANGED <<index, current_run, runner_stop_event, aborted, rows, rows_todo,
                   signals_sent, recorder, recordings, events, now, pruefprotokoll, abort_at,
                   incoming_counts, raised>>

\* _wait_or_abort returns False: the read of the stop flag after the pause
PausedCheck ==
    /\ UNCHANGED outsideRunner
    /\ run_pc = "paused"
    /\ IF runner_stop_event
       THEN give_up(recorder)
       ELSE /\ run_pc' = "set_running"
            /\ UNCHANGED <<aborted, recorder, recordings>>
    /\ dispatch_unchanged
    /\ UNCHANGED <<index, current_run, runner_stop_event, rows, rows_todo, signals_sent,
                   events, now, pruefprotokoll, abort_at, incoming_counts, raised>>

\* _set_status(index, "Wird durchgefuehrt"); _dispatch_signals starts: the
\* segments are built, its locals and _incoming_counts are initialised
SetRunning ==
    /\ UNCHANGED outsideRunner
    /\ run_pc = "set_running"
    /\ current_run' = set_status(current_run, index, RUNNING)
    /\ segments' = build_signal_segments(rows)
    /\ seg' = 1
    /\ pending' = no_pending
    /\ expected_counts' = no_expected_counts
    /\ consider_from' = None
    /\ incoming_counts' = no_incoming_counts
    /\ waited' = FALSE
    /\ rows_todo' = <<>>
    /\ run_pc' = "segment"
    /\ UNCHANGED <<index, runner_stop_event, aborted, rows, signals_sent, recorder,
                   recordings, events, now, pruefprotokoll, abort_at, raised>>

\* _dispatch_signals has no segment left, or finds the stop flag set at the
\* top of its loop: it returns
DispatchSkip ==
    /\ UNCHANGED outsideRunner
    /\ run_pc = "segment"
    /\ seg > Len(segments) \/ runner_stop_event
    /\ dispatch_idle
    /\ run_pc' = "wait"
    /\ UNCHANGED <<index, current_run, runner_stop_event, aborted, rows, rows_todo,
                   signals_sent, recorder, recordings, events, now, pruefprotokoll, abort_at,
                   incoming_counts, raised>>

\* _dispatch_signals enters the next segment, the stop flag not being set: it
\* waits for its turn if replies to the segment's side are expected
DispatchEnter ==
    /\ UNCHANGED outsideRunner
    /\ run_pc = "segment"
    /\ seg <= Len(segments)
    /\ ~runner_stop_event
    /\ LET side == segments[seg].side
       IN  run_pc' = IF pending[side] # <<>> \/ expected_counts[side] # None
                     THEN "turn" ELSE "dispatch"
    /\ rows_todo' = segments[seg].rows
    /\ dispatch_unchanged
    /\ UNCHANGED <<index, current_run, runner_stop_event, aborted, rows,
                   signals_sent, recorder, recordings, events, now, pruefprotokoll, abort_at,
                   incoming_counts, raised>>

\* _wait_for_turn finds the stop flag set and returns
TurnStopped ==
    /\ UNCHANGED outsideRunner
    /\ run_pc = "turn"
    /\ runner_stop_event
    /\ waited' = FALSE
    /\ run_pc' = "dispatch"
    /\ UNCHANGED <<segments, seg, pending, expected_counts, consider_from>>
    /\ UNCHANGED <<index, current_run, runner_stop_event, aborted, rows, rows_todo,
                   signals_sent, recorder, recordings, events, now, pruefprotokoll, abort_at,
                   incoming_counts, raised>>

\* _wait_for_turn that never looks at its deadline
deadline_never(late) == FALSE

\* _wait_for_turn, line 1022: time.time() >= deadline, late saying that the
\* incoming-telegram timeout has run out since the call
deadline_passed(late) == late

\* one pass of the loop of _wait_for_turn, the stop flag not being set: the
\* events are pulled; it returns if nothing more is expected for the side, or
\* if the deadline has passed (late), and sleeps otherwise
TurnPass(late) ==
    /\ UNCHANGED outsideRunner
    /\ run_pc = "turn"
    /\ ~runner_stop_event
    /\ LET side == segments[seg].side
           st == pull_events([recorder |-> recorder, incoming_counts |-> incoming_counts,
                              pending |-> pending], events, TRUE, consider_from)
           target == IF /\ expected_counts[side] # None
                        /\ st.incoming_counts[side] >= expected_counts[side]
                     THEN None ELSE expected_counts[side]
           done == turn_done(st.pending[side], target)
           timed_out == deadline_passed(late)
       IN  /\ recorder' = st.recorder
           /\ incoming_counts' = st.incoming_counts
           /\ pending' = IF ~done /\ timed_out THEN [st.pending EXCEPT ![side] = <<>>]
                         ELSE st.pending
           /\ expected_counts' = [expected_counts EXCEPT
                                      ![side] = IF ~done /\ timed_out THEN None ELSE target]
           /\ run_pc' = IF done \/ timed_out THEN "dispatch" ELSE "turn"
           /\ waited' = ~(done \/ timed_out)
    /\ events' = <<>>
    /\ UNCHANGED <<segments, seg, consider_from>>
    /\ UNCHANGED <<index, current_run, runner_stop_event, aborted, rows, rows_todo,
                   signals_sent, recordings, now, pruefprotokoll, abort_at, raised>>

\* _dispatch_signals sends one row: the stop flag is not set, consider_from
\* is set at the first row, recorder.mark_signal_sent(),
\* backend.send_signal(side, row)
DispatchRow ==
    /\ UNCHANGED outsideRunner
    /\ run_pc = "dispatch"
    /\ rows_todo # <<>>
    /\ ~runner_stop_event
    /\ recorder' = mark_signal_sent(recorder, now + 1)
    /\ now' = IF recorder.active /\ ~recorder.recording_started THEN now + 1 ELSE now
    /\ consider_from' = IF consider_from = None THEN now' ELSE consider_from
    /\ signals_sent' = signals_sent + 1
    /\ rows_todo' = Tail(rows_todo)
    /\ UNCHANGED <<segments, seg, pending, expected_counts, waited>>
    /\ UNCHANGED <<run_pc, index, current_run, runner_stop_event, aborted, rows,
                   recordings, events, pruefprotokoll, abort_at, incoming_counts, raised>>

\* the segment ends, all rows sent or the stop flag set: the expected count
\* and the expected signatures of the other side are set, and the events are
\* pulled
DispatchEnd ==
    /\ UNCHANGED outsideRunner
    /\ run_pc = "dispatch"
    /\ rows_todo = <<>> \/ runner_stop_event
    /\ \A i \in 1..Len(segments[seg].rows) : ~signature_raises(segments[seg].rows[i])
    /\ LET side == other_side(segments[seg].side)
           expected == [expected_counts EXCEPT
                            ![side] = incoming_counts[side] + Len(segments[seg].rows)]
           appended == [pending EXCEPT ![side] = @ \o signatures(segments[seg].rows)]
           st == pull_events([recorder |-> recorder, incoming_counts |-> incoming_counts,
                              pending |-> appended], events, TRUE, consider_from)
       IN  /\ expected_counts' = expected
           /\ recorder' = st.recorder
           /\ incoming_counts' = st.incoming_counts
           /\ pending' = st.pending
    /\ events' = <<>>
    /\ seg' = seg + 1
    /\ rows_todo' = <<>>
    /\ run_pc' = "segment"
    /\ UNCHANGED <<segments, consider_from, waited>>
    /\ UNCHANGED <<index, current_run, runner_stop_event, aborted, rows,
                   signals_sent, recordings, now, pruefprotokoll, abort_at, raised>>

\* the segment ends and _expected_signature raises on one of its rows: the
\* exception leaves _dispatch_signals and the loop of _run; only the finally
\* clause of _run is still executed
DispatchRaises ==
    /\ UNCHANGED outsideRunner
    /\ run_pc = "dispatch"
    /\ rows_todo = <<>> \/ runner_stop_event
    /\ \E i \in 1..Len(segments[seg].rows) : signature_raises(segments[seg].rows[i])
    /\ raised' = TRUE
    /\ dispatch_idle
    /\ rows_todo' = <<>>
    /\ run_pc' = "finally"
    /\ UNCHANGED <<index, current_run, runner_stop_event, aborted, rows,
                   signals_sent, recorder, recordings, events, now, pruefprotokoll, abort_at,
                   incoming_counts>>

\* one pass of the loop of _wait_after_last_signal: a signal was sent and the
\* stop flag is not set
PullEvents ==
    /\ UNCHANGED outsideRunner
    /\ run_pc = "wait"
    /\ recorder.recording_started
    /\ ~runner_stop_event
    /\ events # <<>>
    /\ LET st == pull_events([recorder |-> recorder, incoming_counts |-> incoming_counts,
                              pending |-> pending], events, FALSE, None)
       IN  /\ recorder' = st.recorder
           /\ incoming_counts' = st.incoming_counts
    /\ events' = <<>>
    /\ dispatch_unchanged
    /\ UNCHANGED <<run_pc, index, current_run, runner_stop_event, aborted, rows, rows_todo,
                   signals_sent, recordings, now, pruefprotokoll, abort_at, raised>>

\* _wait_after_last_signal returns: a last _pull_events if a signal was sent
WaitDone ==
    /\ UNCHANGED outsideRunner
    /\ run_pc = "wait"
    /\ IF recorder.recording_started
       THEN LET st == pull_events([recorder |-> recorder,
                                   incoming_counts |-> incoming_counts,
                                   pending |-> pending], events, FALSE, None)
            IN  /\ recorder' = st.recorder
                /\ incoming_counts' = st.incoming_counts
                /\ events' = <<>>
       ELSE UNCHANGED <<recorder, events, incoming_counts>>
    /\ run_pc' = "check"
    /\ dispatch_unchanged
    /\ UNCHANGED <<index, current_run, runner_stop_event, aborted, rows, rows_todo,
                   signals_sent, recordings, now, pruefprotokoll, abort_at, raised>>

\* the read of the stop flag after the sub-test's signals
FinalCheck ==
    /\ UNCHANGED outsideRunner
    /\ run_pc = "check"
    /\ IF runner_stop_event
       THEN give_up(recorder)
       ELSE /\ run_pc' = "complete"
            /\ UNCHANGED <<aborted, recorder, recordings>>
    /\ dispatch_unchanged
    /\ UNCHANGED <<index, current_run, runner_stop_event, rows, rows_todo, signals_sent,
                   events, now, pruefprotokoll, abort_at, incoming_counts, raised>>

\* _set_status(index, "Abgeschlossen"), recorder.finish(aborted=False), and on
\* to the next sub-test
Complete ==
    /\ UNCHANGED outsideRunner
    /\ run_pc = "complete"
    /\ current_run' = set_status(current_run, index, COMPLETED)
    /\ recordings' = finish(recordings, recorder, FALSE)
    /\ recorder' = [recorder EXCEPT !.active = FALSE]
    /\ IF index < Len(current_run.teilpruefungen)
       THEN index' = index + 1 /\ run_pc' = "begin"
       ELSE index' = index /\ run_pc' = "finally"
    /\ dispatch_unchanged
    /\ UNCHANGED <<runner_stop_event, aborted, rows, rows_todo, signals_sent, events, now,
                   pruefprotokoll, abort_at, incoming_counts, raised>>

\* the finally clause of _run: test mode off and _mark_finished(aborted),
\* which stores the run summary
Finally ==
    /\ UNCHANGED outsideRunner
    /\ run_pc = "finally"
    /\ LET run == [current_run EXCEPT
                       !.teilpruefungen = IF aborted THEN mark_all_aborted_locked(@) ELSE @,
                       !.aborted = aborted,
                       !.finished = TRUE]
       IN  /\ current_run' = run
           /\ pruefprotokoll' = [stored |-> TRUE, aborted |-> run.aborted,
                                 teilpruefungen |-> run.teilpruefungen]
    /\ run_pc' = "done"
    /\ dispatch_unchanged
    /\ UNCHANGED <<index, runner_stop_event, aborted, rows, rows_todo, signals_sent,
                   recorder, recordings, events, now, abort_at, incoming_counts, raised>>

(***************************************************************************)
(* The runs of PruefungRunner, one after the other: start() called again,  *)
(* and the test mode _run() switches on and off                            *)
(***************************************************************************)
\* start() that takes every runner thread for ended
never_alive(p) == FALSE

\* self._thread and self._thread.is_alive(), the runner thread being at p
is_alive(p) == p \notin {"idle", "done"}

\* BackendController.set_test_active(active): the command is put into the
\* command queue of the slave
set_test_active(queue, active) ==
    Append(queue, [action |-> "set_test_active", row |-> GI_ROW, active |-> active])

\* the signals the current run has sent
sent_in_run == signals_sent - run_log.sent_before

\* the call of set_test_active is noted
test_call(active) == [active |-> active, sent |-> sent_in_run]

\* PruefungRunner.start for a configuration with n sub-tests with the signal
\* list rs each: under the lock it raises if the runner thread is alive, and
\* else installs a new stop flag and a new run and starts the thread
StartRun(n, rs) ==
    /\ UNCHANGED outsideRuns
    /\ run_log.starts < MaxStarts
    /\ IF is_alive(run_pc)
       THEN /\ run_log' = [run_log EXCEPT !.starts = @ + 1, !.start_raised = TRUE]
            /\ UNCHANGED runnerVars
       ELSE /\ run_log' = [starts |-> run_log.starts + 1, threads |-> run_log.threads + 1,
                           start_raised |-> FALSE, test_calls |-> <<>>,
                           sent_before |-> signals_sent]
            /\ runner_stop_event' = FALSE
            /\ current_run' = [exists |-> TRUE, teilpruefungen |-> [i \in 1..n |-> QUEUED],
                               finished |-> FALSE, aborted |-> FALSE]
            /\ rows' = rs
            /\ run_pc' = "setup"
            /\ abort_at' = <<"none", 0>>
            /\ raised' = FALSE
            /\ dispatch_unchanged
            /\ UNCHANGED <<index, aborted, rows_todo, signals_sent, recorder, recordings,
                           events, now, pruefprotokoll, incoming_counts>>
    /\ UNCHANGED <<pc, command_queue>>

\* _run up to the loop: start_client() and start_server(), which start the
\* processes that are not running, and set_test_active(True)
RunSetupTest ==
    /\ UNCHANGED outsideRuns
    /\ run_pc = "setup"
    /\ pc' = [e \in E |-> IF pc[e] \in {"off", "exited", "crashed"}
                          THEN (IF e = "client" THEN "run" ELSE "listen")
                          ELSE pc[e]]
    /\ command_queue' = [command_queue EXCEPT
                             !["server"] = set_test_active(
                                               IF pc["server"] \in {"off", "exited", "crashed"}
                                               THEN <<>> ELSE @, TRUE)]
    /\ run_log' = [run_log EXCEPT !.test_calls = Append(@, test_call(TRUE))]
    /\ aborted' = FALSE
    /\ index' = 1
    /\ run_pc' = IF Len(current_run.teilpruefungen) = 0 THEN "finally" ELSE "begin"
    /\ dispatch_unchanged
    /\ UNCHANGED <<current_run, runner_stop_event, rows, rows_todo, signals_sent, recorder,
                   recordings, events, now, pruefprotokoll, abort_at, incoming_counts, raised>>

\* the finally clause of _run without set_test_active(False)
FinallyKeepsTestMode ==
    /\ UNCHANGED outsideRuns
    /\ run_pc = "finally"
    /\ run_log' = [run_log EXCEPT !.threads = @ - 1]
    /\ LET run == [current_run EXCEPT
                       !.teilpruefungen = IF aborted THEN mark_all_aborted_locked(@) ELSE @,
                       !.aborted = aborted,
                       !.finished = TRUE]
       IN  /\ current_run' = run
           /\ pruefprotokoll' = [stored |-> TRUE, aborted |-> run.aborted,
                                 teilpruefungen |-> run.teilpruefungen]
    /\ run_pc' = "done"
    /\ UNCHANGED <<pc, command_queue>>
    /\ dispatch_unchanged
    /\ UNCHANGED <<index, runner_stop_event, aborted, rows, rows_todo, signals_sent,
                   recorder, recordings, events, now, abort_at, incoming_counts, raised>>

\* the finally clause of _run: set_test_active(False) and
\* _mark_finished(aborted), which stores the run summary; the thread ends
FinallyTest ==
    /\ UNCHANGED outsideRuns
    /\ run_pc = "finally"
    /\ command_queue' = [command_queue EXCEPT
                             !["server"] = set_test_active(@, FALSE)]
    /\ run_log' = [run_log EXCEPT !.test_calls = Append(@, test_call(FALSE)),
                                  !.threads = @ - 1]
    /\ LET run == [current_run EXCEPT
                       !.teilpruefungen = IF aborted THEN mark_all_aborted_locked(@) ELSE @,
                       !.aborted = aborted,
                       !.finished = TRUE]
       IN  /\ current_run' = run
           /\ pruefprotokoll' = [stored |-> TRUE, aborted |-> run.aborted,
                                 teilpruefungen |-> run.teilpruefungen]
    /\ run_pc' = "done"
    /\ UNCHANGED pc
    /\ dispatch_unchanged
    /\ UNCHANGED <<index, runner_stop_event, aborted, rows, rows_todo, signals_sent,
                   recorder, recordings, events, now, abort_at, incoming_counts, raised>>

(***************************************************************************)
(* Specifications                                                          *)
(***************************************************************************)
(***************************************************************************)
(* Communication history: backend/history.py                               *)
(*                                                                         *)
(* A file is the sequence of its characters.  "LF" is the newline, "LS"    *)
(* the line separator U+2028, "\\n" the two characters json.dumps writes   *)
(* for a newline inside a string; every other string is one more           *)
(* character or a run of them.  A file that does not exist and an empty    *)
(* file are the same to record, load and clear.                            *)
(***************************************************************************)
\* CommunicationHistory._valid_sides
valid_sides == {"client", "server"}

\* the threads that call the history: the two queue listeners and a request
Threads == {"t1", "t2"}

\* what a payload holds besides its side: a label without and with a
\* newline, and one with a line separator
HistoryTexts == {<<"a">>, <<"b", "LF">>, <<"c", "LS", "d">>}

\* the events handed to record(): telegrams and status events of the two
\* sides and of a side the history does not know
HistoryEvents ==
    [type : {"telegram", "status"},
     payload : [side : valid_sides \cup {"other"}, text : HistoryTexts]]

\* json.dumps(payload, ensure_ascii=False): control characters are escaped,
\* U+2028 is written as it is
dumps(payload) ==
    <<"{", payload.side>>
        \o [i \in 1..Len(payload.text) |->
                IF payload.text[i] = "LF" THEN "\\n" ELSE payload.text[i]]
        \o <<"}">>

\* json.loads(line) of a line written by dumps, or of a part of one: the
\* payload, or no payload for a JSONDecodeError
loads(line) ==
    IF /\ Len(line) >= 3
       /\ line[1] = "{"
       /\ line[Len(line)] = "}"
       /\ \A i \in 2..(Len(line) - 1) : line[i] \notin {"{", "}", "LF"}
    THEN << [side |-> line[2],
             text |-> [i \in 1..(Len(line) - 3) |->
                           IF line[i + 2] = "\\n" THEN "LF" ELSE line[i + 2]]] >>
    ELSE <<>>

\* the lines of a text cut after every character of seps, without them; the
\* characters after the last one are a line if there are any
RECURSIVE split(_, _, _)
split(text, seps, line) ==
    IF text = <<>> THEN (IF line = <<>> THEN <<>> ELSE <<line>>)
    ELSE IF Head(text) \in seps THEN <<line>> \o split(Tail(text), seps, <<>>)
    ELSE split(Tail(text), seps, Append(line, Head(text)))

\* str.splitlines() cuts at every line boundary of Unicode
splitlines(text) == split(text, {"LF", "LS"}, <<>>)

\* "for line in handle" with line.rstrip("\n") cuts at newlines only
readlines(text) == split(text, {"LF"}, <<>>)

\* the payloads of the lines that json.loads accepts
RECURSIVE parse(_)
parse(lines) ==
    IF lines = <<>> THEN <<>> ELSE loads(Head(lines)) \o parse(Tail(lines))

\* CommunicationHistory.load(side, limit) on the files fs
load(fs, side, limit) ==
    LET all == readlines(fs[side])
        lines == IF limit # None /\ limit > 0
                 THEN SubSeq(all, IF Len(all) > limit THEN Len(all) - limit + 1 ELSE 1,
                             Len(all))
                 ELSE splitlines(fs[side])
    IN  parse(lines)

\* clear that truncates both files
clear_all(fs, side) == [s \in valid_sides |-> <<>>]

\* CommunicationHistory.clear(side) on the files fs: write_text("")
clear(fs, side) == [fs EXCEPT ![side] = <<>>]

\* a thread that is in no call; outcome tells how its last call ended
idle_call ==
    [pc |-> "idle", side |-> "", limit |-> None, line |-> <<>>, text |-> <<>>,
     result |-> <<>>, outcome |-> "none"]

\* calls of record() that have reached or will reach a file
accepted ==
    LET in_call == {t \in Threads : calls[t].pc \in {"record_lock", "record_write"}}
    IN  Len(recorded.client) + Len(recorded.server) + dropped.client + dropped.server
            + Cardinality(in_call)

\* record(event) up to the lock: an event that is no telegram or has no valid
\* side is ignored; otherwise the line is built
RecordCall(t, event) ==
    /\ UNCHANGED outsideHistory
    /\ calls[t].pc = "idle"
    /\ IF event.type # "telegram" \/ event.payload.side \notin valid_sides
       THEN calls' = [calls EXCEPT ![t] = [idle_call EXCEPT !.outcome = "ignored"]]
       ELSE /\ accepted < MaxHistory
            /\ calls' = [calls EXCEPT
                             ![t] = [idle_call EXCEPT
                                        !.pc = "record_lock",
                                        !.side = event.payload.side,
                                        !.text = event.payload.text,
                                        !.line = dumps(event.payload) \o <<"LF">>]]
    /\ UNCHANGED <<history_files, history_lock, recorded, dropped>>

\* record: "with self._lock" is entered and the file opened for appending
RecordOpen(t) ==
    /\ UNCHANGED outsideHistory
    /\ calls[t].pc = "record_lock"
    /\ history_lock = "free"
    /\ history_lock' = t
    /\ calls' = [calls EXCEPT ![t].pc = "record_write"]
    /\ UNCHANGED <<history_files, recorded, dropped>>

\* record: the next k characters of the line reach the file; after the last
\* one the file is closed and the lock released
RecordWrite(t, k) ==
    /\ UNCHANGED outsideHistory
    /\ calls[t].pc = "record_write"
    /\ k \in 1..Len(calls[t].line)
    /\ history_files' = [history_files EXCEPT ![calls[t].side] = @ \o SubSeq(calls[t].line, 1, k)]
    /\ IF k = Len(calls[t].line)
       THEN /\ calls' = [calls EXCEPT ![t] = [idle_call EXCEPT !.outcome = "recorded"]]
            /\ history_lock' = "free"
            /\ recorded' = [recorded EXCEPT
                                ![calls[t].side] =
                                    Append(@, [side |-> calls[t].side, text |-> calls[t].text])]
       ELSE /\ calls' = [calls EXCEPT
                             ![t].line = SubSeq(calls[t].line, k + 1, Len(calls[t].line))]
            /\ UNCHANGED <<history_lock, recorded>>
    /\ UNCHANGED dropped

\* load(side, limit) up to the lock: _file_for raises for an unknown side
LoadCall(t, side, limit) ==
    /\ UNCHANGED outsideHistory
    /\ calls[t].pc = "idle"
    /\ calls' = [calls EXCEPT
                     ![t] = IF side \notin valid_sides
                            THEN [idle_call EXCEPT !.outcome = "ValueError"]
                            ELSE [idle_call EXCEPT !.pc = "load_lock", !.side = side,
                                                   !.limit = limit]]
    /\ UNCHANGED <<history_files, history_lock, recorded, dropped>>

\* load: the file is read under the lock, then the lines are parsed
LoadRead(t) ==
    /\ UNCHANGED outsideHistory
    /\ calls[t].pc = "load_lock"
    /\ history_lock = "free"
    /\ calls' = [calls EXCEPT
                     ![t] = [idle_call EXCEPT
                                !.side = calls[t].side,
                                !.limit = calls[t].limit,
                                !.result = load(history_files, calls[t].side, calls[t].limit),
                                !.outcome = "loaded"]]
    /\ UNCHANGED <<history_files, history_lock, recorded, dropped>>

\* clear(side) up to the lock: _file_for raises for an unknown side
ClearCall(t, side) ==
    /\ UNCHANGED outsideHistory
    /\ calls[t].pc = "idle"
    /\ calls' = [calls EXCEPT
                     ![t] = IF side \notin valid_sides
                            THEN [idle_call EXCEPT !.outcome = "ValueError"]
                            ELSE [idle_call EXCEPT !.pc = "clear_lock", !.side = side]]
    /\ UNCHANGED <<history_files, history_lock, recorded, dropped>>

\* clear: the file is truncated under the lock
ClearWrite(t) ==
    /\ UNCHANGED outsideHistory
    /\ calls[t].pc = "clear_lock"
    /\ history_lock = "free"
    /\ history_files' = clear(history_files, calls[t].side)
    /\ recorded' = [s \in valid_sides |-> IF history_files'[s] = <<>> THEN <<>> ELSE recorded[s]]
    /\ dropped' = [s \in valid_sides |->
                       IF history_files'[s] = <<>> THEN dropped[s] + Len(recorded[s]) ELSE dropped[s]]
    /\ calls' = [calls EXCEPT
                     ![t] = [idle_call EXCEPT !.side = calls[t].side, !.outcome = "cleared"]]
    /\ UNCHANGED history_lock

\* no thread has called the history: CommunicationHistory.__init__
HistoryIdle ==
    /\ history_files = [s \in valid_sides |-> <<>>]
    /\ history_lock = "free"
    /\ calls = [t \in Threads |-> idle_call]
    /\ recorded = [s \in valid_sides |-> <<>>]
    /\ dropped = [s \in valid_sides |-> 0]

(***************************************************************************)
(* Events: _BaseEndpoint._publish (backend/processes.py), the listener      *)
(* BackendController._drain_queue (backend/controller.py) and EventBus      *)
(* (backend/events.py)                                                      *)
(*                                                                         *)
(* Each endpoint process puts its events on its own queue; one listener    *)
(* thread per queue hands each event to the history and to the EventBus.   *)
(* What EventBus does under its lock is one step.                          *)
(***************************************************************************)
\* the consumers that may subscribe, each with a queue of its own
Consumers == {"c1", "c2"}

\* queue.Queue(): maxsize 0, a queue without a limit
consumer_maxsize == 0

\* str(n) for the numbers the model reaches
str(n) == <<(<<"1", "2", "3", "4", "5", "6", "7", "8", "9">>)[n]>>

\* multiprocessing.Queue.get() that returns the newest element
get_newest(queue) ==
    [data |-> queue[Len(queue)], rest |-> SubSeq(queue, 1, Len(queue) - 1)]

\* multiprocessing.Queue.get(): the oldest element
get(queue) == [data |-> Head(queue), rest |-> Tail(queue)]

\* put_nowait that enqueues the event twice
put_twice(queue, event) == queue \o <<event, event>>

\* queue.Queue.put_nowait(event) with "except queue.Full: pass": the queue
\* afterwards
put_nowait(queue, event) ==
    IF consumer_maxsize > 0 /\ Len(queue) >= consumer_maxsize
    THEN queue
    ELSE Append(queue, event)

\* an endpoint that is not set: None
no_endpoint == <<>>

\* the connection state of a side after BackendController.__init__
no_connection ==
    [connected |-> FALSE, local_endpoint |-> no_endpoint, remote_endpoint |-> no_endpoint]

\* BackendController._update_connection_state on the state of the side:
\* connected is set, the endpoints are taken from a payload that has them,
\* and set to None if the side is not connected
update_connection_state(state, is_connected, has_endpoints) ==
    LET local == IF has_endpoints THEN <<"local">> ELSE state.local_endpoint
        remote == IF has_endpoints THEN <<"remote">> ELSE state.remote_endpoint
    IN  [connected |-> is_connected,
         local_endpoint |-> IF is_connected THEN local ELSE no_endpoint,
         remote_endpoint |-> IF is_connected THEN remote ELSE no_endpoint]

\* the None that _stop_process puts on the queue of the side
sentinel(e) ==
    [type |-> "none", side |-> e, sequence |-> None, connected |-> FALSE, nth |-> 0]

\* a listener that waits in queue.get()
listening == [pc |-> "get", data |-> <<>>, todo |-> <<>>, snapshot |-> <<>>]

\* _BaseEndpoint._publish(payload): the event index is incremented and the
\* telegram event put on the queue
PublishTelegram(e) ==
    /\ UNCHANGED outsideEvents
    /\ produced.client + produced.server < MaxPublished
    /\ event_index' = [event_index EXCEPT ![e] = @ + 1]
    /\ produced' = [produced EXCEPT ![e] = @ + 1]
    /\ event_queue' = [event_queue EXCEPT
                           ![e] = Append(@, [type |-> "telegram", side |-> e,
                                             sequence |-> event_index'[e],
                                             connected |-> FALSE, nth |-> produced'[e]])]
    /\ UNCHANGED <<drain, connection_state, subscribers, consumer, history_files, recorded>>

\* _BaseEndpoint.publish_connection_status(connected): a status event, which
\* has no sequence field
PublishStatus(e, is_connected) ==
    /\ UNCHANGED outsideEvents
    /\ produced.client + produced.server < MaxPublished
    /\ produced' = [produced EXCEPT ![e] = @ + 1]
    /\ event_queue' = [event_queue EXCEPT
                           ![e] = Append(@, [type |-> "status", side |-> e,
                                             sequence |-> None,
                                             connected |-> is_connected, nth |-> produced'[e]])]
    /\ UNCHANGED <<event_index, drain, connection_state, subscribers, consumer,
                   history_files, recorded>>

\* _drain_queue: queue.get() returns None and the listener ends, or it
\* returns an event; a status event updates the connection state
DrainGet(e) ==
    /\ UNCHANGED outsideEvents
    /\ drain[e].pc = "get"
    /\ event_queue[e] # <<>>
    /\ drain' = [drain EXCEPT
                     ![e] = IF get(event_queue[e]).data.type = "none"
                            THEN [listening EXCEPT !.pc = "ended"]
                            ELSE [listening EXCEPT !.pc = "record",
                                                   !.data = <<get(event_queue[e]).data>>]]
    /\ event_queue' = [event_queue EXCEPT ![e] = get(event_queue[e]).rest]
    /\ connection_state' = IF get(event_queue[e]).data.type = "status"
                           THEN [connection_state EXCEPT
                                     ![e] = update_connection_state(
                                                @, get(event_queue[e]).data.connected, TRUE)]
                           ELSE connection_state
    /\ UNCHANGED <<event_index, subscribers, consumer, produced, history_files, recorded>>

\* _drain_queue: self.history.record(data), which writes a telegram event to
\* the file of its side under the lock of the history
DrainRecord(e) ==
    /\ UNCHANGED outsideEvents
    /\ drain[e].pc = "record"
    /\ history_lock = "free"
    /\ LET data == drain[e].data[1]
           payload == [side |-> data.side, text |-> str(data.sequence)]
       IN  IF data.type = "telegram"
           THEN /\ history_files' = [history_files EXCEPT
                                         ![data.side] = @ \o dumps(payload) \o <<"LF">>]
                /\ recorded' = [recorded EXCEPT ![data.side] = Append(@, payload)]
           ELSE UNCHANGED <<history_files, recorded>>
    /\ drain' = [drain EXCEPT ![e].pc = "publish"]
    /\ UNCHANGED <<event_index, event_queue, connection_state, subscribers, consumer, produced>>

\* EventBus.publish: the list of subscribers is copied under the lock
DrainSnapshot(e) ==
    /\ UNCHANGED outsideEvents
    /\ drain[e].pc = "publish"
    /\ drain' = [drain EXCEPT
                     ![e] = IF subscribers = <<>>
                            THEN [listening EXCEPT !.data = drain[e].data]
                            ELSE [drain[e] EXCEPT !.pc = "put", !.todo = subscribers,
                                                  !.snapshot = subscribers]]
    /\ UNCHANGED <<event_index, event_queue, connection_state, subscribers, consumer,
                   produced, history_files, recorded>>

\* EventBus.publish, one pass of its loop: consumer.put_nowait(event)
DrainPut(e) ==
    /\ UNCHANGED outsideEvents
    /\ drain[e].pc = "put"
    /\ consumer' = [consumer EXCEPT
                        ![Head(drain[e].todo)].queue = put_nowait(@, drain[e].data[1])]
    /\ drain' = [drain EXCEPT
                     ![e].todo = Tail(@),
                     ![e].pc = IF Tail(drain[e].todo) = <<>> THEN "get" ELSE "put"]
    /\ UNCHANGED <<event_index, event_queue, connection_state, subscribers, produced,
                   history_files, recorded>>

\* EventBus.subscribe(): a new queue is appended to the subscribers
Subscribe(c) ==
    /\ UNCHANGED outsideEvents
    /\ consumer[c].state = "new"
    /\ subscribers' = Append(subscribers, c)
    /\ consumer' = [consumer EXCEPT ![c].state = "subscribed"]
    /\ UNCHANGED <<event_index, event_queue, drain, connection_state, produced,
                   history_files, recorded>>

\* EventBus.unsubscribe(consumer)
Unsubscribe(c) ==
    /\ UNCHANGED outsideEvents
    /\ consumer[c].state = "subscribed"
    /\ subscribers' = SelectSeq(subscribers, LAMBDA x : x # c)
    /\ consumer' = [consumer EXCEPT ![c].state = "unsubscribed"]
    /\ UNCHANGED <<event_index, event_queue, drain, connection_state, produced,
                   history_files, recorded>>

\* a consumer takes the oldest event from its queue
Take(c) ==
    /\ UNCHANGED outsideEvents
    /\ consumer[c].queue # <<>>
    /\ consumer' = [consumer EXCEPT ![c].queue = Tail(@),
                                    ![c].taken = Append(@, Head(consumer[c].queue))]
    /\ UNCHANGED <<event_index, event_queue, drain, connection_state, subscribers, produced,
                   history_files, recorded>>

\* BackendController._start_process: nothing if the worker is alive; else a
\* new queue, a new process and a new listener.  A start while the listener
\* of the stopped worker is still draining is not followed
ControllerStart(e) ==
    /\ UNCHANGED outsideWorkers
    /\ managed[e] \in {"none", "stopped"}
    /\ managed[e] = "stopped" => drain[e].pc = "ended"
    /\ managed' = [managed EXCEPT ![e] = "alive"]
    /\ event_queue' = [event_queue EXCEPT ![e] = <<>>]
    /\ drain' = [drain EXCEPT ![e] = listening]
    /\ event_index' = [event_index EXCEPT ![e] = 0]
    /\ UNCHANGED <<connection_state, subscribers, consumer, produced>>

\* the worker publishes its connection status
WorkerStatus(e, is_connected) ==
    /\ managed[e] \in {"alive", "stopping"}
    /\ PublishStatus(e, is_connected)

\* _stop_process, first half: the stop event is set and the process joined
ControllerStop(e) ==
    /\ UNCHANGED outsideWorkers
    /\ managed[e] = "alive"
    /\ managed' = [managed EXCEPT ![e] = "stopping"]
    /\ UNCHANGED busVars

\* the worker ends, by itself within the 5 s of the join, or terminated
WorkerEnds(e) ==
    /\ UNCHANGED outsideWorkers
    /\ managed[e] = "stopping"
    /\ managed' = [managed EXCEPT ![e] = "ended"]
    /\ UNCHANGED busVars

\* _stop_process, second half: None is put on the queue, the worker is
\* forgotten and the connection state of the side set to not connected
ControllerStopReturns(e) ==
    /\ UNCHANGED outsideWorkers
    /\ managed[e] = "ended"
    /\ event_queue' = [event_queue EXCEPT ![e] = Append(@, sentinel(e))]
    /\ managed' = [managed EXCEPT ![e] = "stopped"]
    /\ connection_state' = [connection_state EXCEPT
                                ![e] = update_connection_state(@, FALSE, FALSE)]
    /\ UNCHANGED <<event_index, drain, subscribers, consumer, produced>>

\* no worker has been started
WorkersIdle == managed = [e \in E |-> "none"]

\* no endpoint process has published: BackendController.__init__ and
\* _start_process
EventsIdle ==
    /\ event_index = [e \in E |-> 0]
    /\ event_queue = [e \in E |-> <<>>]
    /\ drain = [e \in E |-> listening]
    /\ connection_state = [e \in E |-> no_connection]
    /\ subscribers = <<>>
    /\ consumer = [c \in Consumers |-> [state |-> "new", queue |-> <<>>, taken |-> <<>>]]
    /\ produced = [e \in E |-> 0]

(***************************************************************************)
(* Stored configurations: _store_configuration in main.py, and what a run  *)
(* does with a stored row                                                  *)
(***************************************************************************)
REQUIRED_SIGNAL_HEADERS ==
    << "Datenpunkt / Meldetext", "IEC104- Typ", "IOA 3", "IOA 2", "IOA 1",
       "Uebertragungsursache", "Herkunftsadresse", "Wert", "Qualifier",
       "Quelle/Senke von der FWK betrachtet", "Quelle/Senke von der NLS betrachtet",
       "GA- Generalabfrage (keine Wischer)" >>

\* the headers of a list without the column Qualifier
HeadersWithoutQualifier == SelectSeq(REQUIRED_SIGNAL_HEADERS, LAMBDA h : h # "Qualifier")

\* _validate_signal_headers(headers): the required headers that are missing
validate_signal_headers(headers) ==
    SelectSeq(REQUIRED_SIGNAL_HEADERS,
              LAMBDA h : \A i \in 1..Len(headers) : headers[i] # h)

\* _validate_qualifier_bits(value)
validate_qualifier_bits(value) == QUALIFIER_PATTERN(strip(value))

\* _validate_qualifier_column(rows), rows being list: the number of the first row with a type
\* whose qualifier is not valid, or None
validate_qualifier_column(list) ==
    LET invalid == {i \in 1..Len(list) :
                       list[i].typ # "" /\ ~validate_qualifier_bits(list[i].qualifier)}
    IN  IF invalid = {} THEN None
        ELSE CHOOSE i \in invalid : \A j \in invalid : i <= j

\* rows of a signal list: column "IEC104- Typ" (no blanks around it) and
\* column "Qualifier"
GOOD_ENTRY == [typ |-> "13", qualifier |-> <<"1", "0", "0", "0", "0", "0", "0", "0">>]
PADDED_ENTRY == [typ |-> "13", qualifier |-> <<" ", "1", "0", "0", "0", "0", "0", "0", "0">>]
BAD_ENTRY == [typ |-> "13", qualifier |-> <<"1", "0", "0", "0", "0", "0", "0">>]
UNTYPED_ENTRY == [typ |-> "", qualifier |-> <<"1", "0", "0", "0", "0", "0", "0">>]
WORD_ENTRY == [typ |-> "abc", qualifier |-> <<"0", "0", "0", "0", "0", "0", "0", "0">>]

\* the sub-tests of the payloads: pruefungsart and signalliste, which is a
\* dict with headers and rows, or something else
ConfigTeile ==
    { [pruefungsart |-> "GA", is_dict |-> TRUE, headers |-> REQUIRED_SIGNAL_HEADERS,
       rows |-> <<GOOD_ENTRY>>],
      [pruefungsart |-> "GA", is_dict |-> TRUE, headers |-> REQUIRED_SIGNAL_HEADERS,
       rows |-> <<GOOD_ENTRY, BAD_ENTRY>>],
      [pruefungsart |-> "GA", is_dict |-> TRUE, headers |-> REQUIRED_SIGNAL_HEADERS,
       rows |-> <<UNTYPED_ENTRY, PADDED_ENTRY>>],
      [pruefungsart |-> "GA", is_dict |-> TRUE, headers |-> REQUIRED_SIGNAL_HEADERS,
       rows |-> <<WORD_ENTRY>>],
      [pruefungsart |-> "GA", is_dict |-> TRUE, headers |-> HeadersWithoutQualifier,
       rows |-> <<GOOD_ENTRY>>],
      [pruefungsart |-> "GA", is_dict |-> FALSE, headers |-> <<>>, rows |-> <<>>],
      [pruefungsart |-> "", is_dict |-> TRUE, headers |-> REQUIRED_SIGNAL_HEADERS,
       rows |-> <<BAD_ENTRY>>] }

\* the ids of the stored configurations: one the payloads name, and the one
\* uuid4 generates for a payload without id
ConfigIds == {"a", "uuid"}

\* the payloads of _store_configuration; id "" stands for a payload without id
ConfigPayloads ==
    [id : {"a", ""}, name : {"P", ""},
     teilpruefungen : UNION {[1..n -> ConfigTeile] : n \in 0..MaxConfigTeil}]

\* no configuration file of that id
absent == [exists |-> FALSE, name |-> "", teilpruefungen |-> <<>>]

\* the sub-tests _store_configuration has validated and normalized up to
\* sub-test k, or the error it raises
RECURSIVE normalize(_, _)
normalize(teilpruefungen, k) ==
    IF k = 0 THEN [raised |-> FALSE, normalized |-> <<>>]
    ELSE LET before == normalize(teilpruefungen, k - 1)
             teil == teilpruefungen[k]
         IN  IF before.raised THEN before
             ELSE IF teil.pruefungsart = "" \/ ~teil.is_dict THEN before
             ELSE IF validate_signal_headers(teil.headers) # <<>>
                     \/ validate_qualifier_column(teil.rows) # None
             THEN [raised |-> TRUE, normalized |-> <<>>]
             ELSE [raised |-> FALSE,
                   normalized |-> Append(before.normalized,
                                         [index |-> k, pruefungsart |-> teil.pruefungsart,
                                          headers |-> teil.headers, rows |-> teil.rows])]

\* normalize that skips a sub-test with an invalid list instead of raising
RECURSIVE normalize_skipping(_, _)
normalize_skipping(teilpruefungen, k) ==
    IF k = 0 THEN [raised |-> FALSE, normalized |-> <<>>]
    ELSE LET before == normalize_skipping(teilpruefungen, k - 1)
             teil == teilpruefungen[k]
         IN  IF teil.pruefungsart = "" \/ ~teil.is_dict THEN before
             ELSE IF validate_signal_headers(teil.headers) # <<>>
                     \/ validate_qualifier_column(teil.rows) # None
             THEN before
             ELSE [raised |-> FALSE,
                   normalized |-> Append(before.normalized,
                                         [index |-> k, pruefungsart |-> teil.pruefungsart,
                                          headers |-> teil.headers, rows |-> teil.rows])]

\* _store_configuration(payload): raises ValueError for a missing name, a
\* missing header or an invalid qualifier before it writes; else writes the
\* file of the id, a new one if the payload names none
StoreConfiguration(payload) ==
    /\ UNCHANGED outsideConfig
    /\ payload.id = "" => ~config_files["uuid"].exists
    /\ LET checked == normalize(payload.teilpruefungen, Len(payload.teilpruefungen))
           config_id == IF payload.id = "" THEN "uuid" ELSE payload.id
       IN  IF payload.name = "" \/ checked.raised
           THEN /\ save_result' = "ValueError"
                /\ UNCHANGED config_files
           ELSE /\ save_result' = "stored"
                /\ config_files' = [config_files EXCEPT ![config_id] =
                                        [exists |-> TRUE, name |-> payload.name,
                                         teilpruefungen |-> checked.normalized]]
    /\ UNCHANGED run_row

\* int(row.get("IEC104- Typ", 0) or 0) of _expected_signature: ValueError
\* for a text that is no decimal number
type_raises(typ) == typ \notin {"", "13"}

\* a run handles a row of a stored configuration: _dispatch_signals hands it
\* to an endpoint, whose _build_signal_frame drops a row with type_id <= 0,
\* and then calls _expected_signature for it
RunStoredRow(config_id, t, r) ==
    /\ UNCHANGED outsideConfig
    /\ config_files[config_id].exists
    /\ t \in 1..Len(config_files[config_id].teilpruefungen)
    /\ r \in 1..Len(config_files[config_id].teilpruefungen[t].rows)
    /\ LET row == config_files[config_id].teilpruefungen[t].rows[r]
       IN  run_row' = [row |-> row,
                       endpoint |-> IF safe_int(row.typ) <= 0 THEN "dropped" ELSE "sent",
                       runner |-> IF type_raises(row.typ) THEN "ValueError" ELSE "signature"]
    /\ UNCHANGED <<config_files, save_result>>

\* no row has been handled
no_row == [row |-> UNTYPED_ENTRY, endpoint |-> "none", runner |-> "none"]

ConfigIdle ==
    /\ config_files = [c \in ConfigIds |-> absent]
    /\ save_result = "none"
    /\ run_row = no_row

\* start has not been called
RunsIdle ==
    run_log = [starts |-> 0, threads |-> 0, start_raised |-> FALSE, test_calls |-> <<>>,
               sent_before |-> 0]

\* no signal row has been enqueued
SignalsIdle ==
    signal_log = [e \in E |-> [enqueued |-> <<>>, sent |-> <<>>, events |-> <<>>,
                               raised |-> FALSE]]

\* no call of build_i_frame is under test
no_fields ==
    [send_sequence |-> None, recv_sequence |-> None, type_id |-> None, cause |-> None,
     originator |-> None, common_address |-> None, ioa |-> None, information |-> <<>>]

ServiceIdle ==
    /\ fields = no_fields
    /\ HistoryIdle
    /\ EventsIdle
    /\ ConfigIdle
    /\ SignalsIdle
    /\ RunsIdle
    /\ WorkersIdle

ParserIdle ==
    /\ stream = <<>>
    /\ fed = 0
    /\ buffer = <<>>
    /\ frames = <<>>

\* no run has been started: PruefungRunner.__init__
RunnerIdle ==
    /\ run_pc = "idle"
    /\ index = 0
    /\ current_run = no_run
    /\ runner_stop_event = FALSE
    /\ aborted = FALSE
    /\ rows = <<>>
    /\ rows_todo = <<>>
    /\ segments = <<>>
    /\ seg = 0
    /\ pending = no_pending
    /\ expected_counts = no_expected_counts
    /\ consider_from = None
    /\ incoming_counts = no_incoming_counts
    /\ waited = FALSE
    /\ raised = FALSE
    /\ signals_sent = 0
    /\ recorder = idle_recorder
    /\ recordings = [i \in 1..MaxTeil |-> no_recording]
    /\ events = <<>>
    /\ now = 0
    /\ pruefprotokoll = [stored |-> FALSE, aborted |-> FALSE, teilpruefungen |-> <<>>]
    /\ abort_at = <<"none", 0>>

\* no endpoint process has been started: BackendController.__init__
LinkOff ==
    /\ pc = [e \in E |-> "off"]
    /\ stop_event = [e \in E |-> FALSE]
    /\ sock = [e \in E |-> FALSE]
    /\ sequence = [e \in E |-> 0]
    /\ recv_sequence = [e \in E |-> 0]
    /\ pending_signals = [e \in E |-> <<>>]
    /\ command_queue = [e \in E |-> <<>>]
    /\ test_active = [e \in E |-> FALSE]
    /\ connected = [e \in E |-> FALSE]
    /\ wire = [e \in E |-> <<>>]
    /\ chunk = [e \in E |-> 0]
    /\ foreign_open = [e \in E |-> FALSE]
    /\ ack_received = [e \in E |-> 0]
    /\ started = [e \in E |-> FALSE]
    /\ parser_buffer = <<>>
    /\ published = <<>>
    /\ testfr_wait = None
    /\ slave_log = <<>>

InitParser ==
    /\ ServiceIdle
    /\ stream \in SeqsUpTo(StreamBytes, MaxStream) \cup ResyncStreams
    /\ fed = 0
    /\ buffer = <<>>       \* FrameParser.__init__
    /\ frames = <<>>
    /\ LinkOff
    /\ closed_loop = TRUE
    /\ rows_left = [e \in E |-> 0]
    /\ RunnerIdle

NextParser == \E n \in 1..Len(stream) : Feed(n)

SpecParser == InitParser /\ [][NextParser]_vars

\* the steps of an established connection between master and slave
SessionStep ==
    \/ \E e \in E : SendSignal(e, SP_ROW)
    \/ \E e \in E : ProcessCommands(e)
    \/ \E e \in E : FlushRow(e)
    \/ \E e \in E : FlushDone(e)
    \/ \E e \in E, n \in 1..MaxChunk : Recv(e, n)
    \/ \E e \in E : SelectTimeout(e)
    \/ \E e \in E : HandleFrame(e)
    \/ \E due \in BOOLEAN : Keepalive(due)

\* master and slave connected to each other, neither of them ever stopped
Init ==
    /\ ServiceIdle
    /\ ParserIdle
    /\ RunnerIdle
    /\ LinkOff
    /\ closed_loop = TRUE
    /\ rows_left = [client |-> MaxRows, server |-> MaxSlaveRows]

Next ==
    \/ \E e \in E : StartProcess(e)
    \/ ClientConnect
    \/ ClientConnectFails
    \/ ServerAcceptTimeout
    \/ ServerAccept
    \/ SessionStep

Spec == Init /\ [][Next]_vars

\* each endpoint process alone, connected to a foreign peer; the controller
\* may stop it
InitPeer ==
    /\ ServiceIdle
    /\ ParserIdle
    /\ RunnerIdle
    /\ LinkOff
    /\ closed_loop = FALSE
    /\ rows_left = [e \in E |-> MaxPeerRows]

NextPeer ==
    \/ \E e \in E : StartProcess(e)
    \/ \E e \in E : RequestStop(e)
    \/ \E e \in E : Exit(e)
    \/ \E e \in E, row \in LinkRows : SendSignal(e, row)
    \/ \E active \in BOOLEAN : SetTestActive(active)
    \/ ClientConnect
    \/ ClientConnectFails
    \/ ServerAcceptTimeout
    \/ ServerAccept
    \/ \E e \in E : ProcessCommands(e)
    \/ \E e \in E : FlushRow(e)
    \/ \E e \in E : FlushDone(e)
    \/ \E e \in E, n \in 1..MaxChunk : Recv(e, n)
    \/ \E e \in E : SelectTimeout(e)
    \/ \E e \in E : PeerClosed(e)
    \/ \E e \in E : HandleFrame(e)
    \/ \E due \in BOOLEAN : Keepalive(due)
    \/ ForeignConnect
    \/ \E e \in E, frame \in ForeignFrames : ForeignSend(e, frame)
    \/ \E e \in E : ForeignClose(e)

SpecPeer == InitPeer /\ [][NextPeer]_vars

\* the master alone, connecting again and again to a peer that answers,
\* closes, stops in the middle of a frame or becomes unreachable
NextReconnect ==
    \/ StartProcess("client")
    \/ RequestStop("client")
    \/ Exit("client")
    \/ SendSignal("client", SP_ROW)
    \/ ClientConnect
    \/ ClientConnectFails
    \/ ProcessCommands("client")
    \/ FlushRow("client")
    \/ FlushDone("client")
    \/ \E n \in 1..MaxChunk : Recv("client", n)
    \/ SelectTimeout("client")
    \/ PeerClosed("client")
    \/ HandleFrame("client")
    \/ \E due \in BOOLEAN : Keepalive(due)
    \/ \E frame \in MasterPeerFrames : ForeignSend("client", frame)
    \/ ForeignClose("client")
    \/ RecvFragment
    \/ RecvError

SpecReconnect == InitPeer /\ [][NextReconnect]_vars

\* the slave alone, with a foreign master that connects, writes, closes or
\* resets; the controller may stop the slave
InitSlave ==
    /\ ServiceIdle
    /\ ParserIdle
    /\ RunnerIdle
    /\ LinkOff
    /\ closed_loop = FALSE
    /\ rows_left = [client |-> 0, server |-> MaxSlaveRows]

NextSlave ==
    \/ StartProcess("server")
    \/ SendSignal("server", SP_ROW)
    \/ \E active \in BOOLEAN : SetTestActive(active)
    \/ ServerAcceptTimeout
    \/ ServerAccept
    \/ ProcessCommands("server")
    \/ FlushRow("server")
    \/ FlushDone("server")
    \/ \E n \in 1..MaxChunk : Recv("server", n)
    \/ SelectTimeout("server")
    \/ PeerClosed("server")
    \/ HandleFrame("server")
    \/ ForeignConnect
    \/ \E frame \in SlavePeerFrames : ForeignSend("server", frame)
    \/ ForeignClose("server")
    \/ \E k \in 0..2 : ReplyFails(k)

SpecSlave == InitSlave /\ [][NextSlave]_vars

\* a connection between master and slave on which the master has sent
\* WrapStart I-frames, all of them handled and acknowledged, and the slave none
InitWrap ==
    /\ ServiceIdle
    /\ ParserIdle
    /\ RunnerIdle
    /\ closed_loop = TRUE
    /\ pc = [e \in E |-> "commands"]
    /\ stop_event = [e \in E |-> FALSE]
    /\ sock = [e \in E |-> TRUE]
    /\ sequence = [client |-> WrapStart, server |-> 0]
    /\ recv_sequence = [client |-> 0, server |-> WrapStart]
    /\ pending_signals = [e \in E |-> <<>>]
    /\ command_queue = [e \in E |-> <<>>]
    /\ test_active = [e \in E |-> FALSE]
    /\ connected = [e \in E |-> TRUE]
    /\ wire = [e \in E |-> <<>>]
    /\ chunk = [e \in E |-> 0]
    /\ foreign_open = [e \in E |-> FALSE]
    /\ rows_left = [client |-> MaxWrapRows, server |-> MaxSlaveRows]
    /\ ack_received = [client |-> WrapStart, server |-> 0]
    /\ started = [e \in E |-> TRUE]
    /\ parser_buffer = <<>>
    /\ published = connect_events(fresh_state)
    /\ testfr_wait = None
    /\ slave_log = <<>>

NextWrap == SessionStep

SpecWrap == InitWrap /\ [][NextWrap]_vars

\* one run of the test runner, with abort() called at any time
InitRunner ==
    /\ ServiceIdle
    /\ ParserIdle
    /\ LinkOff
    /\ closed_loop = TRUE
    /\ rows_left = [e \in E |-> 0]
    /\ RunnerIdle

\* a row of a signal list: the two source/sink columns, "IEC104- Typ",
\* the cause of transmission, "IOA 1" and the value
Row(nls, fwk, typ, ioa) ==
    [nls |-> nls, fwk |-> fwk, typ |-> typ, cause |-> 3, ioa |-> ioa, wert |-> 1]

\* rows sent by the master, by the slave, a row without a type, which no side
\* sends, and a row whose type cell is not a number
MASTER_ROW == Row(<<"Q">>, <<"S">>, 1, 1)
SLAVE_ROW == Row(<<"S">>, <<"Q">>, 1, 2)
UNTYPED_ROW == Row(<<"Q">>, <<"S">>, 0, 3)
BAD_ROW == Row(<<"Q">>, <<"S">>, NotANumber, 4)

RunRows == {MASTER_ROW, SLAVE_ROW, UNTYPED_ROW, BAD_ROW}

\* an event of the backend's queue
Event(type, side, direction, frame_family, type_id, ioa, value) ==
    [type |-> type, ts |-> 0, side |-> side, direction |-> direction,
     frame_family |-> frame_family, type_id |-> type_id, cause |-> 3, ioa |-> ioa,
     value |-> value]

\* the telegram event of the master having sent MASTER_ROW
SENT_EVENT == Event("telegram", "client", "outgoing", "I", 1, 1, 1)

\* the slave has received MASTER_ROW as sent, and a telegram of no row
RECEIVED_EVENT == Event("telegram", "server", "incoming", "I", 1, 1, 1)
OTHER_EVENT == Event("telegram", "server", "incoming", "I", 1, 9, 1)

\* the events the endpoints publish during a run: the telegrams of the rows as
\* sent and as received, a telegram of no row, and a status event
RunEvents ==
    { SENT_EVENT,
      RECEIVED_EVENT,
      OTHER_EVENT,
      Event("telegram", "client", "incoming", "I", 1, 2, 1),
      Event("status", "server", "", "", None, None, None) }

NextRunner ==
    \/ \E n \in 1..MaxTeil, rs \in SeqsUpTo({MASTER_ROW}, MaxRunRows) : Start(n, rs)
    \/ Abort
    \/ TelegramEvent(SENT_EVENT)
    \/ RunSetup
    \/ Begin
    \/ SetPreparing
    \/ PauseAbort
    \/ PauseElapsed
    \/ PausedCheck
    \/ SetRunning
    \/ DispatchSkip
    \/ DispatchEnter
    \/ DispatchRow
    \/ PullEvents
    \/ DispatchEnd
    \/ WaitDone
    \/ FinalCheck
    \/ Complete
    \/ Finally

SpecRunner == InitRunner /\ [][NextRunner]_vars

\* one run of one sub-test whose signal list has rows of both sides, rows
\* that are not sent and rows that cannot be read, with abort() at any time
NextDispatch ==
    \/ \E rs \in SeqsUpTo(RunRows, MaxDispatchRows) : Start(1, rs)
    \/ Abort
    \/ \E event \in RunEvents :
           Len(events) + Len(recorder.entries) < MaxDispatchEvents /\ TelegramEvent(event)
    \/ RunSetup
    \/ Begin
    \/ SetPreparing
    \/ PauseAbort
    \/ PauseElapsed
    \/ PausedCheck
    \/ SetRunning
    \/ DispatchSkip
    \/ DispatchEnter
    \/ TurnStopped
    \/ \E late \in BOOLEAN : TurnPass(late)
    \/ DispatchRow
    \/ PullEvents
    \/ DispatchEnd
    \/ DispatchRaises
    \/ WaitDone
    \/ FinalCheck
    \/ Complete
    \/ Finally

SpecDispatch == InitRunner /\ [][NextDispatch]_vars

\* the texts of a source/sink cell: "Q", "q", "S", an empty cell and "Q/S"
SegCells == {<<"Q">>, <<"q">>, <<"S">>, <<>>, <<"Q", "/", "S">>}

\* the rows of a signal list as _build_signal_segments reads them
SegRows == {Row(nls, fwk, 1, 1) : nls \in SegCells, fwk \in SegCells}

\* _build_signal_segments is given a signal list
InitSegments ==
    /\ ServiceIdle
    /\ ParserIdle
    /\ LinkOff
    /\ closed_loop = TRUE
    /\ rows_left = [e \in E |-> 0]
    /\ run_pc = "idle"
    /\ index = 0
    /\ current_run = no_run
    /\ runner_stop_event = FALSE
    /\ aborted = FALSE
    /\ rows \in SeqsUpTo(SegRows, MaxSegRows)
    /\ rows_todo = <<>>
    /\ segments = <<>>
    /\ seg = 0
    /\ pending = no_pending
    /\ expected_counts = no_expected_counts
    /\ consider_from = None
    /\ incoming_counts = no_incoming_counts
    /\ waited = FALSE
    /\ raised = FALSE
    /\ signals_sent = 0
    /\ recorder = idle_recorder
    /\ recordings = [i \in 1..MaxTeil |-> no_recording]
    /\ events = <<>>
    /\ now = 0
    /\ pruefprotokoll = [stored |-> FALSE, aborted |-> FALSE, teilpruefungen |-> <<>>]
    /\ abort_at = <<"none", 0>>

\* segments = self._build_signal_segments(rows)
BuildSegments ==
    /\ UNCHANGED outsideRunner
    /\ run_pc = "idle"
    /\ segments' = build_signal_segments(rows)
    /\ run_pc' = "segments"
    /\ UNCHANGED <<index, current_run, runner_stop_event, aborted, rows, rows_todo, seg,
                   pending, expected_counts, consider_from, incoming_counts, waited, raised,
                   signals_sent, recorder, recordings, events, now, pruefprotokoll, abort_at>>

NextSegments == BuildSegments

SpecSegments == InitSegments /\ [][NextSegments]_vars

\* the rows of a run in which no exception is raised
TimeoutRows == {MASTER_ROW, SLAVE_ROW, UNTYPED_ROW}

\* the events of such a run: the master's telegram as sent and as received
\* by the slave
TimeoutEvents == {SENT_EVENT, RECEIVED_EVENT}

\* the numbers of sub-tests of such a run
TimeoutRuns == {1, 2}

\* a run without abort(): the endpoints publish their events or do not
NextTimeout ==
    \/ \E n \in TimeoutRuns, rs \in SeqsUpTo(TimeoutRows, MaxDispatchRows) : Start(n, rs)
    \/ \E event \in TimeoutEvents :
           Len(events) + Len(recorder.entries) < MaxDispatchEvents /\ TelegramEvent(event)
    \/ RunSetup
    \/ Begin
    \/ SetPreparing
    \/ PauseElapsed
    \/ PausedCheck
    \/ SetRunning
    \/ DispatchSkip
    \/ DispatchEnter
    \/ \E late \in BOOLEAN : TurnPass(late)
    \/ DispatchRow
    \/ PullEvents
    \/ DispatchEnd
    \/ WaitDone
    \/ FinalCheck
    \/ Complete
    \/ Finally

\* the steps the runner thread takes by itself once it is started; the clock
\* goes on, so the pause runs out, the deadline of _wait_for_turn passes
\* (TurnPass(TRUE)) and the loop of _wait_after_last_signal ends (WaitDone)
Progress ==
    \/ RunSetup
    \/ Begin
    \/ SetPreparing
    \/ PauseElapsed
    \/ PausedCheck
    \/ SetRunning
    \/ DispatchSkip
    \/ DispatchEnter
    \/ TurnPass(TRUE)
    \/ DispatchRow
    \/ DispatchEnd
    \/ WaitDone
    \/ FinalCheck
    \/ Complete
    \/ Finally

SpecTimeout == InitRunner /\ [][NextTimeout]_vars /\ WF_vars(Progress)

\* well-formed arguments of build_i_frame: the ends of each range and values
\* that use each byte of the wider fields
IFrameFields ==
    [send_sequence : {0, 129, SEQ_MODULUS - 1},
     recv_sequence : {0, 129, SEQ_MODULUS - 1},
     type_id : {0, 100, 255},
     cause : {0, 6, 255},
     originator : {0, 255},
     common_address : {0, 258, 65535},
     ioa : {0, 66051, 16777215},
     information : {<<>>, <<20>>, <<1, 2, 3, 4, 5>>}]

\* the socket delivers the bytes of one frame built by build_i_frame
InitRoundTrip ==
    /\ fields \in IFrameFields
    /\ HistoryIdle
    /\ EventsIdle
    /\ ConfigIdle
    /\ SignalsIdle
    /\ RunsIdle
    /\ WorkersIdle
    /\ stream = build_i_frame(fields.send_sequence, fields.recv_sequence, fields.type_id,
                              fields.cause, fields.originator, fields.common_address,
                              fields.ioa, fields.information)
    /\ fed = 0
    /\ buffer = <<>>
    /\ frames = <<>>
    /\ LinkOff
    /\ closed_loop = TRUE
    /\ rows_left = [e \in E |-> 0]
    /\ RunnerIdle

SpecRoundTrip == InitRoundTrip /\ [][NextParser]_vars

\* the socket delivers the bytes of one frame built by build_s_frame, for
\* every receive sequence number of 15 bits
InitSFrame ==
    /\ \E v_r \in 0..(SEQ_MODULUS - 1) :
           /\ fields = [no_fields EXCEPT !.recv_sequence = v_r]
           /\ stream = build_s_frame(v_r)
    /\ HistoryIdle
    /\ EventsIdle
    /\ ConfigIdle
    /\ SignalsIdle
    /\ RunsIdle
    /\ WorkersIdle
    /\ fed = 0
    /\ buffer = <<>>
    /\ frames = <<>>
    /\ LinkOff
    /\ closed_loop = TRUE
    /\ rows_left = [e \in E |-> 0]
    /\ RunnerIdle

SpecSFrame == InitSFrame /\ [][NextParser]_vars

\* the type identifiers of the rows: those of TYPE_INFORMATION_LENGTHS and one
\* the tables do not know
RowTypes == {1, 3, 5, 7, 9, 11, 13, 15, 30, 31, 36, 58, 59, 63, 70, 100, 103, 45}

\* the rows handed to _build_information_bytes, each with the clock reading
\* at the time of the call
InformationRows ==
    [type_id : RowTypes, value : ValueTexts, qualifier : QualifierTexts, cp56time : Cp56Times]

\* the I-frame that carries the information bytes built for a row, as
\* _build_signal_frame builds it; no frame if _build_information_bytes raises
row_frame(row) ==
    LET information == information_bytes(row.type_id, row.value, row.qualifier, row.cp56time)
    IN  IF information.raised THEN <<>>
        ELSE build_i_frame(0, 0, row.type_id, 20, originator_address, common_address, 1,
                           information.bytes)

\* the socket delivers the bytes of the frame built for one row
InitInformation ==
    /\ fields \in InformationRows
    /\ HistoryIdle
    /\ EventsIdle
    /\ ConfigIdle
    /\ SignalsIdle
    /\ RunsIdle
    /\ WorkersIdle
    /\ stream = row_frame(fields)
    /\ fed = 0
    /\ buffer = <<>>
    /\ frames = <<>>
    /\ LinkOff
    /\ closed_loop = TRUE
    /\ rows_left = [e \in E |-> 0]
    /\ RunnerIdle

SpecInformation == InitInformation /\ [][NextParser]_vars

\* configurations are saved, and runs handle the rows of the stored ones
InitConfig ==
    /\ ParserIdle
    /\ RunnerIdle
    /\ LinkOff
    /\ closed_loop = TRUE
    /\ rows_left = [e \in E |-> 0]
    /\ ServiceIdle

NextConfig ==
    \/ \E payload \in ConfigPayloads : StoreConfiguration(payload)
    \/ \E config_id \in ConfigIds, t \in 1..MaxConfigTeil, r \in 1..2 :
           RunStoredRow(config_id, t, r)

SpecConfig == InitConfig /\ [][NextConfig]_vars

\* the endpoints, one at a time, each with a foreign peer that may close or
\* reset the connection; the orchestrator hands rows to them
InitSignals ==
    /\ ServiceIdle
    /\ ParserIdle
    /\ RunnerIdle
    /\ LinkOff
    /\ closed_loop = FALSE
    /\ rows_left = [e \in E |-> MaxSignalRows]

\* the steps of the endpoint process of the side
EndpointStep(e) ==
    \/ Exit(e)
    \/ e = "client" /\ ClientConnect
    \/ e = "server" /\ ServerAcceptTimeout
    \/ e = "server" /\ ServerAccept
    \/ ProcessCommands(e)
    \/ \E ok \in BOOLEAN : FlushSignal(e, ok)
    \/ FlushDone(e)
    \/ SelectTimeout(e)
    \/ PeerClosed(e)
    \/ e = "client" /\ Keepalive(FALSE)

NextSignals ==
    \/ \E e \in E : StartProcess(e)
    \/ \E e \in E : RequestStop(e)
    \/ \E e \in E, row \in SignalRows : EnqueueSignal(e, row)
    \/ ForeignConnect
    \/ \E e \in E : ForeignClose(e)
    \/ \E e \in E : EndpointStep(e)

SpecSignals == InitSignals /\ [][NextSignals]_vars

\* each endpoint process keeps running
SpecSignalsFair == SpecSignals /\ \A e \in E : WF_vars(EndpointStep(e))

\* runs started one after the other, with rows that are sent and rows on
\* which the runner raises; abort() at any time; the slave, to which nobody
\* connects, reads its command queue
RunsRows == {<<>>, <<MASTER_ROW>>, <<BAD_ROW>>}

\* the numbers of sub-tests of the configurations run
RunsTeile == {1, 2}

InitRuns ==
    /\ ServiceIdle
    /\ ParserIdle
    /\ LinkOff
    /\ closed_loop = FALSE
    /\ rows_left = [e \in E |-> 0]
    /\ RunnerIdle

NextRuns ==
    \/ \E n \in RunsTeile, rs \in RunsRows : StartRun(n, rs)
    \/ Abort
    \/ RunSetupTest
    \/ Begin
    \/ SetPreparing
    \/ PauseAbort
    \/ PauseElapsed
    \/ PausedCheck
    \/ SetRunning
    \/ DispatchSkip
    \/ DispatchEnter
    \/ DispatchRow
    \/ DispatchEnd
    \/ DispatchRaises
    \/ WaitDone
    \/ FinalCheck
    \/ Complete
    \/ FinallyTest
    \/ ServerAcceptTimeout

SpecRuns == InitRuns /\ [][NextRuns]_vars

\* the history of a freshly started backend, called from its threads
InitHistory ==
    /\ ParserIdle
    /\ RunnerIdle
    /\ LinkOff
    /\ closed_loop = TRUE
    /\ rows_left = [e \in E |-> 0]
    /\ ServiceIdle

NextHistory ==
    \/ \E t \in Threads, event \in HistoryEvents : RecordCall(t, event)
    \/ \E t \in Threads : RecordOpen(t)
    \/ \E t \in Threads, k \in 1..6 : RecordWrite(t, k)
    \/ \E t \in Threads, side \in valid_sides \cup {"other"}, limit \in {None, 1} : LoadCall(t, side, limit)
    \/ \E t \in Threads : LoadRead(t)
    \/ \E t \in Threads, side \in valid_sides \cup {"other"} : ClearCall(t, side)
    \/ \E t \in Threads : ClearWrite(t)

SpecHistory == InitHistory /\ [][NextHistory]_vars

\* both endpoint processes just started, their listeners waiting.  The
\* master publishes telegrams and status events, which tell connected and
\* not connected in turn, the slave telegrams; the consumer c1 reads its
\* queue, c2 never reads and may leave
InitEvents ==
    /\ ParserIdle
    /\ RunnerIdle
    /\ LinkOff
    /\ closed_loop = TRUE
    /\ rows_left = [e \in E |-> 0]
    /\ ServiceIdle

NextEvents ==
    \/ \E e \in E : PublishTelegram(e)
    \/ PublishStatus("client", (produced.client - event_index.client) % 2 = 0)
    \/ \E e \in E : DrainGet(e)
    \/ \E e \in E : DrainRecord(e)
    \/ \E e \in E : DrainSnapshot(e)
    \/ \E e \in E : DrainPut(e)
    \/ \E c \in Consumers : Subscribe(c)
    \/ Unsubscribe("c2")
    \/ Take("c1")

SpecEvents == InitEvents /\ [][NextEvents]_vars

\* the controller starts and stops the workers, whose status events the
\* listeners drain
NextWorkers ==
    \/ \E e \in E : ControllerStart(e)
    \/ \E e \in E, is_connected \in BOOLEAN : WorkerStatus(e, is_connected)
    \/ \E e \in E : ControllerStop(e)
    \/ \E e \in E : WorkerEnds(e)
    \/ \E e \in E : ControllerStopReturns(e)
    \/ \E e \in E : DrainGet(e)
    \/ \E e \in E : DrainRecord(e)
    \/ \E e \in E : DrainSnapshot(e)

SpecWorkers == InitEvents /\ [][NextWorkers]_vars

(***************************************************************************)
(* Claims about the frame codec (checked under SpecParser)                 *)
(***************************************************************************)
\* stream is g non-start bytes followed by exactly one complete APDU
IsGarbageThenFrame(g) ==
    /\ g + 2 <= Len(stream)
    /\ \A i \in 1..g : stream[i] # START_BYTE
    /\ stream[g + 1] = START_BYTE
    /\ Len(stream) = g + 2 + stream[g + 2]

\* C3: whenever the stream is any number of non-0x68 bytes followed by one
\* complete APDU, a fresh parser that has been fed all of it has returned
\* exactly that APDU and nothing else, and keeps nothing buffered; before
\* the last byte arrived it has returned nothing.
C3_Resync ==
    \A g \in 0..Len(stream) :
        IsGarbageThenFrame(g) =>
            /\ fed = Len(stream) =>
                   /\ frames = <<SubSeq(stream, g + 1, Len(stream))>>
                   /\ buffer = <<>>
            /\ fed < Len(stream) => frames = <<>>

\* the spec's example FF FF 68 04 07 00 00 00 decodes to one U-frame STARTDT ACT
C3_Witness ==
    /\ stream = <<255, 255, 104, 4, 7, 0, 0, 0>>
    /\ fed = Len(stream)
    /\ Len(frames) = 1
    /\ decode_frame(frames[1]).frame_family = "U"
    /\ decode_frame(frames[1]).label = "STARTDT ACT"

\* C4: however the bytes fed so far were split into feed() calls, the frames
\* returned so far and the residual buffer are those of a single feed() of
\* the same bytes to a fresh parser; every returned frame starts with 0x68
\* and is exactly its length byte + 2 bytes long.
C4_ChunkIndependent ==
    LET whole == feed(<<>>, SubSeq(stream, 1, fed))
    IN  /\ frames = whole.frames
        /\ buffer = whole.buffer
        /\ \A i \in 1..Len(frames) :
               /\ frames[i][1] = START_BYTE
               /\ Len(frames[i]) = frames[i][2] + 2

\* a complete frame has been returned while bytes of the stream are still to come
C4_Witness ==
    /\ stream = <<START_BYTE, 2, 1, 2, START_BYTE>>
    /\ fed = 4
    /\ frames = <<(<<START_BYTE, 2, 1, 2>>)>>
    /\ buffer = <<>>

(***************************************************************************)
(* Claims about sequence numbers and acknowledgements                      *)
(***************************************************************************)
\* the window of the scenario: at most this many I-frames unacknowledged
K_WINDOW == 3

frame_family(frame) == decode_frame(frame).frame_family

\* I-frames the side has sent on its connection that no frame it has handled
\* acknowledges yet
unacked_sent(e) == (sequence[e] - ack_received[e]) % SEQ_MODULUS

\* C1: on every connection the number of I-frames a side has sent and that
\* are not yet acknowledged never exceeds k.
C1_WindowRespected ==
    \A e \in E : (sock[e] /\ connected[e]) => unacked_sent(e) <= K_WINDOW

\* this step is the side handling the first frame waiting on its wire
handles(e) == pc[e] = "frames" /\ chunk'[e] = chunk[e] - 1

\* C2: when a side handles an I-frame whose send sequence number differs from
\* its v_r, it closes the connection and reports connected=false, and v_r is
\* not incremented.
C2_SequenceChecked ==
    [][\A e \in E :
           ( /\ handles(e)
             /\ frame_family(Head(wire[e])) = "I"
             /\ extract_sequences(Head(wire[e])).send # recv_sequence[e] )
           => ( /\ ~sock'[e]
                /\ ~connected'[e]
                /\ recv_sequence'[e] = recv_sequence[e] )]_vars

\* the I-frames among the frames
RECURSIVE i_frames(_)
i_frames(fs) ==
    IF fs = <<>> THEN <<>>
    ELSE (IF frame_family(Head(fs)) = "I" THEN <<Head(fs)>> ELSE <<>>) \o i_frames(Tail(fs))

\* nothing is queued, pending or in flight between master and slave
Quiescent ==
    /\ \A e \in E : wire[e] = <<>> /\ chunk[e] = 0
    /\ \A e \in E : command_queue[e] = <<>> /\ pending_signals[e] = <<>>

\* I-frames the master has been given to send on the connection of SpecWrap
WrapSent == WrapStart + (MaxWrapRows - rows_left["client"])

\* C5: in a closed loop without loss the next I-frame a side will receive
\* carries the side's v_r as its send sequence number, and once the N
\* I-frames of the master are all handled, the master's v_s and the slave's
\* v_r both equal N mod 2^15.
C5_CountersAgree ==
    /\ \A e \in E :
           i_frames(wire[e]) # <<>> =>
               extract_sequences(Head(i_frames(wire[e]))).send = recv_sequence[e]
    /\ Quiescent =>
           /\ sequence["client"] = WrapSent % SEQ_MODULUS
           /\ recv_sequence["server"] = WrapSent % SEQ_MODULUS

\* C6: on every open connection v_s and v_r of both sides stay within
\* [0, 2^15).
C6_CountersInRange ==
    \A e \in E :
        sock[e] => /\ sequence[e] \in 0..(SEQ_MODULUS - 1)
                   /\ recv_sequence[e] \in 0..(SEQ_MODULUS - 1)

\* the frames the side writes in this step
written(e) ==
    IF Len(wire'[Peer(e)]) > Len(wire[Peer(e)])
    THEN SubSeq(wire'[Peer(e)], Len(wire[Peer(e)]) + 1, Len(wire'[Peer(e)]))
    ELSE <<>>

\* C7: a side that handles an I-frame writes an S-frame in the same step, as
\* the last frame it writes (so at least once per w received I-frames for
\* every w >= 1), and every S-frame a side writes carries the value v_r has
\* after the step, the number of I-frames received on the connection,
\* modulo 2^15.
C7_Acknowledges ==
    [][\A e \in E :
           /\ (handles(e) /\ frame_family(Head(wire[e])) = "I") =>
                  /\ recv_sequence'[e] = recv_sequence[e] + 1
                  /\ written(e) # <<>>
                  /\ frame_family(written(e)[Len(written(e))]) = "S"
           /\ \A i \in 1..Len(written(e)) :
                  frame_family(written(e)[i]) = "S" =>
                      extract_sequences(written(e)[i]).recv
                          = recv_sequence'[e] % SEQ_MODULUS]_vars

\* the slave has received 2^15 I-frames and its acknowledgement of the last
\* one, carrying 0, is on its way to the master
C7_Witness ==
    /\ recv_sequence["server"] = SEQ_MODULUS
    /\ \E i \in 1..Len(wire["client"]) :
           /\ frame_family(wire["client"][i]) = "S"
           /\ extract_sequences(wire["client"][i]).recv = 0

\* C8: an I-frame a side has written is on the wire only if the STARTDT
\* handshake is complete at that side: the master has handled STARTDT CON,
\* the slave has handled STARTDT ACT and replied STARTDT CON.
C8_StartedBeforeData ==
    \A e \in E :
        i_frames(wire[Peer(e)]) # <<>> => started[e]

(***************************************************************************)
(* Claims about the test runner (checked under SpecRunner)                 *)
(***************************************************************************)
\* the run has ended: _mark_finished has run
RunEnded == run_pc = "done"

\* abort() was first called during the pre-test pause of sub-test 1: in
\* _wait_or_abort, or between its last wait and its return
AbortedInFirstPause == abort_at \in {<<"pause", 1>>, <<"paused", 1>>}

\* C9: if abort() is called during the pre-test pause of the first sub-test
\* of a run with two sub-tests, no signal is ever sent and no recording is
\* started, and once the run has ended both sub-tests are 'Abgebrochen', the
\* recording of sub-test 1 is written with aborted=true and no entries, none
\* is written for sub-test 2, and the run state and the stored summary have
\* aborted=true.
C9_AbortInPause ==
    (Len(current_run.teilpruefungen) = 2 /\ AbortedInFirstPause) =>
        /\ signals_sent = 0
        /\ run_pc \in {"pause", "paused", "finally", "done"}
        /\ RunEnded =>
               /\ current_run.teilpruefungen = <<ABORTED, ABORTED>>
               /\ current_run.finished /\ current_run.aborted
               /\ recordings[1] = [written |-> TRUE, aborted |-> TRUE, entries |-> <<>>]
               /\ ~recordings[2].written
               /\ pruefprotokoll = [stored |-> TRUE, aborted |-> TRUE,
                                    teilpruefungen |-> <<ABORTED, ABORTED>>]

\* a run of two sub-tests, aborted in the pause of the first while a telegram
\* event was waiting to be pulled, has ended
C9_Witness ==
    /\ Len(current_run.teilpruefungen) = 2
    /\ abort_at = <<"pause", 1>>
    /\ events # <<>>
    /\ RunEnded
    /\ pruefprotokoll.stored

\* C10: whenever abort() was called before the run had finished, the run ends
\* with aborted=true in its state and in the stored summary, and with every
\* sub-test 'Abgeschlossen' or 'Abgebrochen'.
C10_AbortAlwaysAborts ==
    (RunEnded /\ abort_at[1] \notin {"none", "done"}) =>
        /\ current_run.aborted
        /\ pruefprotokoll.aborted
        /\ \A i \in 1..Len(current_run.teilpruefungen) :
               current_run.teilpruefungen[i] \in {COMPLETED, ABORTED}

(***************************************************************************)
(* Claims about a sub-test's signals (checked under SpecDispatch)          *)
(***************************************************************************)
\* C11: if an exception was raised while a sub-test was executed, then once
\* the run has ended the sub-test is 'Abgebrochen', its recording is written
\* with aborted=true, and the run state and the stored summary have
\* aborted=true.
C11_ExceptionAborts ==
    (RunEnded /\ raised) =>
        /\ current_run.teilpruefungen[index] = ABORTED
        /\ recordings[index].written /\ recordings[index].aborted
        /\ current_run.aborted
        /\ pruefprotokoll.aborted

\* C13: _wait_for_turn goes on waiting (it sleeps and takes another pass of
\* its loop) only while a signature is pending for the side it waits for.
C13_WaitsOnlyWhilePending ==
    (run_pc = "turn" /\ waited) => pending[segments[seg].side] # <<>>

\* the entry of the flat sequence of the signal list that is sent next
next_entry == flat_sequence(rows)[signals_sent + 1]

\* C14: a row is enqueued to its endpoint only in the order of the flat
\* sequence, with the stop flag not set, and when for the sending side no
\* expected signature is pending and no expected count is open; and the step
\* that ends a segment sets the expected count of the other side to its
\* incoming count plus the number of rows of the segment.
C14_TurnByTurn ==
    [][ /\ (signals_sent' = signals_sent + 1) =>
               /\ ~runner_stop_event
               /\ signals_sent < Len(flat_sequence(rows))
               /\ next_entry = [side |-> segments[seg].side, row |-> Head(rows_todo)]
               /\ pending[segments[seg].side] = <<>>
               /\ expected_counts[segments[seg].side] = None
        /\ (run_pc = "dispatch" /\ seg' = seg + 1) =>
               expected_counts'[other_side(segments[seg].side)] =
                   incoming_counts[other_side(segments[seg].side)] + Len(segments[seg].rows)
      ]_vars

\* the slave has sent its row after the master's row was seen received
C14_Witness ==
    /\ rows = <<MASTER_ROW, SLAVE_ROW>>
    /\ signals_sent = 2
    /\ incoming_counts["server"] = 1
    /\ \E i \in 1..Len(recorder.entries) : recorder.entries[i].side = "server"

\* the runner is about to call _pull_events with the pending lists: in a pass
\* of _wait_for_turn, or at the end of a segment
PullsWithPending ==
    \/ run_pc = "turn" /\ ~runner_stop_event
    \/ /\ run_pc = "dispatch"
       /\ rows_todo = <<>> \/ runner_stop_event
       /\ \A i \in 1..Len(segments[seg].rows) : ~signature_raises(segments[seg].rows[i])

\* the pending lists that call of _pull_events is given
pending_given ==
    IF run_pc = "dispatch"
    THEN [pending EXCEPT ![other_side(segments[seg].side)] = @ \o signatures(segments[seg].rows)]
    ELSE pending

\* the recorder, counts and pending lists before the k-th queued event is handled
before_event(k) ==
    pull_events([recorder |-> recorder, incoming_counts |-> incoming_counts,
                 pending |-> pending_given], SubSeq(events, 1, k - 1), TRUE, consider_from)

\* the number of entries of the list equal to x
count_of(list, x) == Cardinality({i \in 1..Len(list) : list[i] = x})

\* shorter is longer without exactly one entry equal to x
one_removed(longer, shorter, x) ==
    \E i \in 1..Len(longer) :
        /\ longer[i] = x
        /\ shorter = SubSeq(longer, 1, i - 1) \o SubSeq(longer, i + 1, Len(longer))

\* C16: for every event the next call of _pull_events handles, the pending
\* list of a side other than the event's is unchanged; the list of the
\* event's side is unchanged or has lost exactly one entry, equal to the
\* event's (type_id, cause, ioa), and only if the event is an incoming I-frame
\* telegram; an event whose signature is not pending on its side changes no
\* list; and the event's value does not change the outcome.
C16_MatchesOneSignature ==
    PullsWithPending =>
        \A k \in 1..Len(events) :
            LET event == events[k]
                signature == <<event.type_id, event.cause, event.ioa>>
                was == before_event(k).pending
                is == pull_event(before_event(k), event, TRUE, consider_from).pending
            IN  /\ \A s \in E \ {event.side} : is[s] = was[s]
                /\ \/ is = was
                   \/ /\ event.type = "telegram"
                      /\ event.frame_family = "I"
                      /\ event.direction = "incoming"
                      /\ one_removed(was[event.side], is[event.side], signature)
                /\ count_of(was[event.side], signature) = 0 => is = was
                /\ \A value \in {0, 1, None} :
                       pull_event(before_event(k), [event EXCEPT !.value = value],
                                  TRUE, consider_from).pending = is

\* the master has sent the same row twice and the slave has received it once:
\* one of the two equal signatures is still pending
C16_Witness ==
    /\ rows = <<MASTER_ROW, MASTER_ROW>>
    /\ signals_sent = 2
    /\ incoming_counts["server"] = 1
    /\ pending["server"] = <<expected_signature(MASTER_ROW)>>

(***************************************************************************)
(* Claims about the segmentation (checked under SpecSegments)              *)
(***************************************************************************)
\* the cell's text contains the letter Q: the capital letter only (exact), or
\* in either case
contains_Q(cell, exact) ==
    \E i \in 1..Len(cell) : cell[i] = "Q" \/ (~exact /\ cell[i] = "q")

\* the rows walked in order, each emitted once for the master if its NLS
\* column contains Q and then once for the slave if its FWK column contains Q
RECURSIVE emitted(_, _)
emitted(rs, exact) ==
    IF rs = <<>> THEN <<>>
    ELSE LET row == rs[Len(rs)]
         IN  emitted(SubSeq(rs, 1, Len(rs) - 1), exact)
                 \o (IF contains_Q(row.nls, exact)
                     THEN <<[side |-> "client", row |-> row]>> ELSE <<>>)
                 \o (IF contains_Q(row.fwk, exact)
                     THEN <<[side |-> "server", row |-> row]>> ELSE <<>>)

\* the rows of all segments, one after the other, each with its segment's side
RECURSIVE unrolled(_)
unrolled(segs) ==
    IF segs = <<>> THEN <<>>
    ELSE [i \in 1..Len(Head(segs).rows) |-> [side |-> Head(segs).side, row |-> Head(segs).rows[i]]]
             \o unrolled(Tail(segs))

\* every segment is non-empty and two adjacent segments never have the same side
WellFormedSegments ==
    /\ \A i \in 1..Len(segments) : segments[i].rows # <<>>
    /\ \A i \in 1..(Len(segments) - 1) : segments[i].side # segments[i + 1].side

\* C15 as amended: the rows of all segments, one after the other and with
\* their segment's side, are the flat sequence that emits each row once for
\* the master if its NLS column contains the letter Q in either case and then
\* once for the slave if its FWK column does; every segment is non-empty and
\* two adjacent segments never have the same side.
C15_Segmentation ==
    run_pc = "segments" =>
        /\ unrolled(segments) = emitted(rows, FALSE)
        /\ WellFormedSegments

\* C15 as stated: the same with a row emitted for a side only if the column
\* contains Q, the capital letter.
C15_SegmentationExactQ ==
    run_pc = "segments" =>
        /\ unrolled(segments) = emitted(rows, TRUE)
        /\ WellFormedSegments

\* a list cut into a segment of the master and a segment of two rows of the
\* slave, the first row being sent by both sides and marked "q" for the master
C15_Witness ==
    /\ run_pc = "segments"
    /\ rows = <<Row(<<"q">>, <<"Q">>, 1, 1), Row(<<"S">>, <<"Q", "/", "S">>, 1, 1)>>
    /\ Len(segments) = 2
    /\ Len(segments[2].rows) = 2

(***************************************************************************)
(* Claims about a run without abort (checked under SpecTimeout)            *)
(***************************************************************************)
\* the run has ended with every sub-test 'Abgeschlossen', every recording
\* written with aborted=false, and aborted=false in the run state and the
\* stored summary
AllCompleted ==
    /\ RunEnded
    /\ \A i \in 1..Len(current_run.teilpruefungen) :
           /\ current_run.teilpruefungen[i] = COMPLETED
           /\ recordings[i].written /\ ~recordings[i].aborted
    /\ current_run.finished /\ ~current_run.aborted
    /\ pruefprotokoll.stored /\ ~pruefprotokoll.aborted

Running(e) == sock[e] /\ started[e]

\* the step in which the side, asked to stop, closes the socket of its
\* connection and ends
ClosesOnStop(e) ==
    /\ pc[e] = "commands"
    /\ stop_event[e]
    /\ sock[e]
    /\ ~sock'[e]
    /\ pc'[e] = "exited"

\* C18: an endpoint that is asked to stop never closes its socket while the
\* session is in phase Running.
C18_StopsBeforeClose ==
    [][\A e \in E : ClosesOnStop(e) => ~Running(e)]_vars

\* C17: once T1 has passed since a TESTFR ACT that no TESTFR CON has
\* answered, the master has closed the session: it does not begin another
\* pass of its loop on the open connection.
C17_T1Supervised ==
    ~(/\ pc["client"] = "commands"
      /\ sock["client"]
      /\ ~stop_event["client"]
      /\ testfr_wait = T1_TICKS)

\* kind, label and direction of the events _connect publishes, in order
CONNECT_ORDER ==
    << <<"tcp", "SYN", "outgoing">>,
       <<"tcp", "SYN ACK", "incoming">>,
       <<"tcp", "ACK", "outgoing">>,
       <<"U", "STARTDT ACT", "outgoing">>,
       <<"status", "connected=true", "">> >>

\* C19: while the master is connected, the events published since its
\* connect begin with TCP SYN (outgoing), SYN ACK (incoming), ACK (outgoing),
\* U STARTDT ACT (outgoing) and status connected=true, in this order; none of
\* the events before the status event is a status event; and at each of the
\* five the counters were zero and the parser empty.
C19_ConnectOrder ==
    (sock["client"] /\ connected["client"]) =>
        /\ Len(published) >= Len(CONNECT_ORDER)
        /\ \A i \in 1..Len(CONNECT_ORDER) :
               /\ <<published[i].kind, published[i].label, published[i].direction>>
                      = CONNECT_ORDER[i]
               /\ published[i].sequence = 0
               /\ published[i].recv_sequence = 0
               /\ published[i].buffer = <<>>

\* the master is connected again after a connection on which it had sent an
\* I-frame: the row it was given is sent and the counter is zero
C19_Witness ==
    /\ pc["client"] = "commands"
    /\ sock["client"] /\ connected["client"]
    /\ published = connect_events(fresh_state)
    /\ rows_left["client"] < MaxPeerRows
    /\ pending_signals["client"] = <<>>
    /\ command_queue["client"] = <<>>
    /\ sequence["client"] = 0

\* the step in which the master loses its connection in recv(), not being
\* asked to stop
LostByRead ==
    /\ pc["client"] = "select"
    /\ ~stop_event["client"]
    /\ sock["client"]
    /\ ~sock'["client"]

\* C20: in the step in which the master loses its connection by a read error
\* or a close of the peer, it publishes TCP RST ACK and then status
\* connected=false, and goes on to connect again.
C20_ResetPublished ==
    [][LostByRead =>
           /\ pc'["client"] = "run"
           /\ \E i, j \in (Len(published) + 1)..Len(published') :
                  /\ i < j
                  /\ published'[i].label = "RST ACK"
                  /\ published'[j].label = "connected=false"
      ]_vars

(***************************************************************************)
(* Claims about the frame builders (checked under SpecRoundTrip)           *)
(***************************************************************************)
\* C30: a frame built by build_i_frame from well-formed fields is decoded as
\* family I with the type, cause, originator, station and ioa given; the
\* sequence numbers extracted from its control field are the ones given; its
\* length byte is 13 + len(information), so that a parser fed all of its
\* bytes, in whatever chunks, has returned exactly that frame and keeps
\* nothing, and has returned nothing before the last byte.
C30_IFrameRoundTrip ==
    LET telegram == decode_frame(stream)
    IN  /\ telegram.frame_family = "I"
        /\ telegram.type_id = fields.type_id
        /\ telegram.cause = fields.cause
        /\ telegram.originator = fields.originator
        /\ telegram.station = fields.common_address
        /\ telegram.ioa = fields.ioa
        /\ telegram.payload = SubSeq(stream, 7, 15) \o fields.information
        /\ extract_sequences(stream).send = fields.send_sequence
        /\ extract_sequences(stream).recv = fields.recv_sequence
        /\ stream[2] = 13 + Len(fields.information)
        /\ fed = Len(stream) => frames = <<stream>> /\ buffer = <<>>
        /\ fed < Len(stream) => frames = <<>>

\* a frame with the largest counters, addresses and a five-byte information
\* has been fed whole
C30_Witness ==
    /\ fields.send_sequence = SEQ_MODULUS - 1
    /\ fields.recv_sequence = 129
    /\ fields.common_address = 65535
    /\ fields.ioa = 16777215
    /\ fields.information = <<1, 2, 3, 4, 5>>
    /\ fed = Len(stream)
    /\ frames = <<stream>>

\* C31: for every v_r below 2^15, build_s_frame(v_r) is the six bytes
\* 68 04 01 00 lo hi, where lo and hi are the low and the high byte of
\* 2 * v_r; decode_frame gives it the family S, and the receive sequence
\* number extracted from its control field is v_r.  (Checked under
\* SpecSFrame, where a parser fed these bytes returns the frame whole.)
C31_SFrameRoundTrip ==
    LET v_r == fields.recv_sequence
    IN  /\ Len(stream) = 6
        /\ SubSeq(stream, 1, 4) = <<104, 4, 1, 0>>
        /\ stream[5] \in 0..255
        /\ stream[6] \in 0..255
        /\ stream[5] + 256 * stream[6] = 2 * v_r
        /\ decode_frame(stream).frame_family = "S"
        /\ decode_frame(stream).label = "S-FRAME"
        /\ extract_sequences(stream).recv = v_r
        /\ fed = Len(stream) => frames = <<stream>> /\ buffer = <<>>

\* the S-frame with the largest receive sequence number has been fed whole
C31_Witness ==
    /\ fields.recv_sequence = SEQ_MODULUS - 1
    /\ stream = <<104, 4, 1, 0, 254, 255>>
    /\ fed = 6
    /\ frames = <<stream>>

\* the information bytes of the frame built for the row
information_of(frame) == SubSeq(frame, 16, Len(frame))

\* C33: for a row of a type that has a qualifier field: if its qualifier is
\* a text of 8 binary digits, the information bytes built for it hold the
\* byte int(q, 2) at the offset of the type's qualifier field, and
\* _decode_qualifier_field gives, for the I-frame built from them, the label
\* of the type's field with that value; if its qualifier is no text of 8
\* binary digits (blanks around it not counted), the bytes are those built
\* without a qualifier.  (Checked under SpecInformation, for the rows whose
\* value can be encoded.)
C33_QualifierRoundTrip ==
    LET spec == QUALIFIER_FIELD_SPECS(fields.type_id)
        telegram == decode_frame(stream)
    IN  (spec.index # None /\ stream # <<>>)
            => IF QUALIFIER_PATTERN(strip(fields.qualifier))
               THEN /\ information_of(stream)[spec.index + 1]
                           = int_base_2(strip(fields.qualifier))
                    /\ decode_qualifier_field(telegram.type_id, telegram.payload)
                           = [label |-> spec.label,
                              value |-> int_base_2(strip(fields.qualifier))]
               ELSE stream = row_frame([fields EXCEPT !.qualifier = <<>>])

\* the total information-object bytes, the IOA not counted, of each type
\* identifier in the table of the specification
info_len(type_id) ==
    CASE type_id \in {1, 3, 70, 100} -> 1
      [] type_id = 5                 -> 2
      [] type_id \in {9, 11}         -> 3
      [] type_id \in {7, 13, 15}     -> 5
      [] type_id \in {58, 103}       -> 7
      [] type_id \in {30, 31}        -> 8
      [] type_id \in {36, 63}        -> 12
      [] OTHER                       -> None

\* C34: for every row of a type identifier of the table, information bytes
\* are built, and they have exactly the length the table gives for the type:
\* 1, 1, 2, 5, 3, 3, 5, 5 for types 1, 3, 5, 7, 9, 11, 13, 15; 8, 8, 12 for
\* 30, 31, 36; 7 for 58; 12 for 63; 1 for 70 and 100; 7 for 103.  (Checked
\* under SpecInformation.)
C34_InformationLengths ==
    info_len(fields.type_id) # None
        => /\ stream # <<>>
           /\ Len(information_of(stream)) = info_len(fields.type_id)
           /\ stream[2] = 13 + info_len(fields.type_id)

(***************************************************************************)
(* Claims about the signal rows (checked under SpecSignals)                *)
(***************************************************************************)
\* the rows for which a frame is built: type_id > 0
sendable(list) == SelectSeq(list, LAMBDA row : row.type_id > 0)

\* the rows of the send_signal commands in the queue, in order
queued_rows(e) == [i \in 1..Len(command_queue[e]) |-> command_queue[e][i].row]

\* _send_signal_from_row has sent a row in this step
RowSent(e) == signal_log'[e].sent # signal_log[e].sent

\* _flush_pending has popped a row in this step, for good or to put it back
RowHandled(e) ==
    /\ pc[e] = "flush"
    /\ pending_signals'[e] # pending_signals[e] \/ signal_log'[e] # signal_log[e]

\* C35: after a send of a pending row has raised on an established
\* connection, and without a stop request, the endpoint leaves the flush
\* loop, finds the connection broken and publishes status connected=false
\* (after which the master connects again and the slave listens again).
\* (Checked under SpecSignalsFair.)
C35_RecoversFromSendFailure ==
    \A e \in E :
        (signal_log[e].raised /\ pc[e] = "flush")
            ~> (stop_event[e] \/ (~connected[e] /\ pc[e] \in {"run", "listen"}))

C38_StatusesOnlyForward ==
    [][(current_run.exists /\ current_run'.exists /\ run_pc # "idle")
           => \A i \in 1..Len(current_run.teilpruefungen) :
                  /\ current_run.teilpruefungen[i] = ABORTED
                         => current_run'.teilpruefungen[i]
                                \notin {PREPARING, RUNNING, COMPLETED}
                  /\ current_run.teilpruefungen[i] = COMPLETED
                         => current_run'.teilpruefungen[i] # ABORTED]_vars

(***************************************************************************)
(* Claims about runs one after the other (checked under SpecRuns)          *)
(***************************************************************************)
\* the test mode of the slave once it has read the commands in its queue
test_mode_to_be ==
    process_commands(command_queue["server"], <<>>, test_active["server"]).active

\* C37: a run calls set_test_active(true) before it sends its first signal,
\* and when it has finished, be it completed, aborted or left by an
\* exception, its last call was set_test_active(false), made after its last
\* signal, and it made no other call; the test mode of the slave is then off
\* as soon as the slave has read its commands.
C37_TestModeBracketsRun ==
    /\ sent_in_run > 0
           => /\ run_log.test_calls # <<>>
              /\ run_log.test_calls[1] = [active |-> TRUE, sent |-> 0]
    /\ (current_run.exists /\ current_run.finished)
           => /\ run_log.test_calls = << [active |-> TRUE, sent |-> 0],
                                         [active |-> FALSE, sent |-> sent_in_run] >>
              /\ ~test_mode_to_be

\* a run that has sent a signal was left by an exception and has finished
C37_Witness ==
    /\ current_run.exists /\ current_run.finished
    /\ raised
    /\ sent_in_run > 0
    /\ run_pc = "done"

\* start is called in this step
StartCalled == run_log'.starts = run_log.starts + 1

\* C39: there are never two runner threads.  A call of start while the
\* runner thread is alive raises and leaves the run, the stop flag and the
\* thread as they are; any other call installs a new run, none of whose
\* sub-tests has left the queue, with a stop flag that is not set, whatever
\* abort() did before.
C39_OneRunAtATime ==
    /\ [](run_log.threads <= 1)
    /\ [][StartCalled
              => IF run_pc \notin {"idle", "done"}
                 THEN /\ run_log'.start_raised
                      /\ run_log'.threads = run_log.threads
                      /\ UNCHANGED runnerVars
                 ELSE /\ ~run_log'.start_raised
                      /\ run_log'.threads = 1
                      /\ ~runner_stop_event'
                      /\ current_run'.exists /\ ~current_run'.finished
                      /\ \A i \in 1..Len(current_run'.teilpruefungen) :
                             current_run'.teilpruefungen[i] = QUEUED
                      /\ run_pc' = "setup"]_vars

\* the first run was aborted and has finished with its stop flag set, and
\* the second run is installed with a stop flag that is not set
C39_Witness ==
    /\ run_log.starts = 2
    /\ run_log.threads = 1
    /\ ~run_log.start_raised
    /\ pruefprotokoll.stored /\ pruefprotokoll.aborted
    /\ run_pc = "setup"
    /\ ~runner_stop_event

(***************************************************************************)
(* Claims about the connection status (checked under SpecWorkers)          *)
(***************************************************************************)
\* C40: from the return of stop_client() or stop_server() until the side is
\* started again, the connection status of the side is connected=false with
\* both endpoints None, whatever the listener still drains; and whenever a
\* side is not connected, both its endpoints are None.
C40_StoppedStaysDisconnected ==
    \A e \in E :
        /\ managed[e] = "stopped" => connection_state[e] = no_connection
        /\ ~connection_state[e].connected
               => /\ connection_state[e].local_endpoint = no_endpoint
                  /\ connection_state[e].remote_endpoint = no_endpoint

(***************************************************************************)
(* Claims about stored configurations (checked under SpecConfig)           *)
(***************************************************************************)
\* the list lacks a required header, or has a row with a type and a
\* qualifier that is not 8 binary digits
invalid_list(headers, list) ==
    \/ \E i \in 1..Len(REQUIRED_SIGNAL_HEADERS) :
           \A j \in 1..Len(headers) : headers[j] # REQUIRED_SIGNAL_HEADERS[i]
    \/ \E i \in 1..Len(list) :
           list[i].typ # "" /\ ~QUALIFIER_PATTERN(strip(list[i].qualifier))

\* a sub-test of the payload has an invalid list
invalid_payload(payload) ==
    \E k \in 1..Len(payload.teilpruefungen) :
        /\ payload.teilpruefungen[k].pruefungsart # ""
        /\ payload.teilpruefungen[k].is_dict
        /\ invalid_list(payload.teilpruefungen[k].headers, payload.teilpruefungen[k].rows)

\* C32: saving a configuration with an invalid list in a sub-test raises and
\* leaves every configuration file as it was; no stored configuration has an
\* invalid list; and no row with a type of a stored configuration is
\* rejected at run time, neither dropped by the endpoint nor refused by the
\* runner.
C32_RejectedAtSaveTime ==
    /\ [][\A payload \in ConfigPayloads :
              (invalid_payload(payload) /\ StoreConfiguration(payload))
                  => save_result' = "ValueError" /\ config_files' = config_files]_vars
    /\ [](\A c \in ConfigIds : \A k \in 1..Len(config_files[c].teilpruefungen) :
              ~invalid_list(config_files[c].teilpruefungen[k].headers,
                            config_files[c].teilpruefungen[k].rows))
    /\ [](run_row.row.typ # ""
              => run_row.endpoint # "dropped" /\ run_row.runner # "ValueError")

(***************************************************************************)
(* Claims about the communication history (checked under SpecHistory)      *)
(***************************************************************************)
\* the thread completes a call of load in this step
LoadReturns(t) == calls[t].pc = "load_lock" /\ calls'[t].pc = "idle"

\* C27: a load without limit returns the payloads of all events recorded for
\* its side since the last clear of that side, each exactly once and in the
\* order they were recorded; a call of record with an event that is no
\* telegram, or whose side is neither client nor server, changes no file.
C27_LoadReturnsRecorded ==
    [][\A t \in Threads :
           /\ (LoadReturns(t) /\ calls[t].limit = None)
                  => calls'[t].result = recorded[calls[t].side]
           /\ (calls'[t] # calls[t] /\ calls'[t].outcome = "ignored")
                  => history_files' = history_files]_vars

\* C28: clear(side) leaves the file of that side empty, so that load(side)
\* returns nothing, and leaves the other file, and with it what load returns
\* for the other side, as it was; a write of record() for one side leaves
\* the file of the other side as it was; clear of an unknown side raises
\* and changes no file.
C28_ClearOneSide ==
    [][\A t \in Threads :
           /\ (calls[t].pc = "clear_lock" /\ calls'[t].pc = "idle")
                  => /\ history_files'[calls[t].side] = <<>>
                     /\ \A side \in valid_sides, limit \in {None, 1} :
                            load(history_files', side, limit)
                                = IF side = calls[t].side THEN <<>>
                                  ELSE load(history_files, side, limit)
                     /\ \A side \in valid_sides \ {calls[t].side} :
                            history_files'[side] = history_files[side]
           /\ (calls[t].pc = "record_write" /\ calls'[t] # calls[t])
                  => \A side \in valid_sides \ {calls[t].side}, limit \in {None, 1} :
                         /\ history_files'[side] = history_files[side]
                         /\ load(history_files', side, limit) = load(history_files, side, limit)
           /\ (calls'[t] # calls[t] /\ calls'[t].outcome = "ValueError")
                  => history_files' = history_files]_vars

\* the master's file has been emptied of a recorded event while the slave's
\* file holds one
C28_Witness ==
    \E t \in Threads :
        /\ calls[t].outcome = "cleared"
        /\ calls[t].side = "client"
        /\ dropped.client > 0
        /\ history_files.client = <<>>
        /\ recorded.server # <<>>
        /\ load(history_files, "server", None) = recorded.server

\* C29: whatever the threads do, every line a load reads is the whole line
\* of one recorded event, and a load without limit returns every event
\* recorded for its side since the last clear of that side.
C29_NoTornLines ==
    [][\A t \in Threads :
           LoadReturns(t) =>
               LET side == calls[t].side
                   lines == IF calls[t].limit = None
                            THEN splitlines(history_files[side])
                            ELSE readlines(history_files[side])
               IN  /\ \A i \in 1..Len(lines) :
                          \E j \in 1..Len(recorded[side]) :
                              lines[i] = dumps(recorded[side][j])
                   /\ calls[t].limit = None =>
                          \A j \in 1..Len(recorded[side]) :
                              \E i \in 1..Len(calls'[t].result) :
                                  calls'[t].result[i] = recorded[side][j]]_vars

(***************************************************************************)
(* Claims about the events on their way (checked under SpecEvents)         *)
(***************************************************************************)
\* everything the consumer has been given: what it has taken from its queue
\* and what still waits there
deliveries(c) == consumer[c].taken \o consumer[c].queue

\* how often the listener's current event has been given to the consumer
copies(e, c) == count_of(deliveries(c), drain[e].data[1])

\* the members of a list
members(list) == {list[i] : i \in 1..Len(list)}

\* C25: a listener that publishes is never held up, neither where it copies
\* the list of subscribers nor at a put, whatever the queues hold; while it
\* walks through its copy of the list, each consumer on it that it has
\* passed has been given the event exactly once and no other consumer has
\* been given it; when publish has returned, every consumer that was
\* subscribed when the list was copied has the event exactly once, also one
\* that never reads its queue or has left since.
C25_PublishDelivers ==
    \A e \in E :
        /\ drain[e].pc = "publish" =>
               /\ ENABLED DrainSnapshot(e)
               /\ \A c \in Consumers : copies(e, c) = 0
        /\ drain[e].pc = "put" =>
               /\ ENABLED DrainPut(e)
               /\ \A c \in Consumers :
                      copies(e, c) = IF c \in members(drain[e].snapshot) \ members(drain[e].todo)
                                     THEN 1 ELSE 0
        /\ (drain[e].pc = "get" /\ drain[e].data # <<>>) =>
               \A c \in Consumers :
                   copies(e, c) = IF c \in members(drain[e].snapshot) THEN 1 ELSE 0

\* the master's listener has delivered an event to both consumers, one of
\* which never reads, while the slave's listener is between its two puts
C25_Witness ==
    /\ drain.client.pc = "get"
    /\ drain.client.snapshot = <<"c1", "c2">>
    /\ copies("client", "c1") = 1
    /\ copies("client", "c2") = 1
    /\ drain.server.pc = "put"
    /\ drain.server.todo = <<"c2">>
    /\ copies("server", "c1") = 1

\* the events of one endpoint among those given to the consumer
from_side(c, e) == SelectSeq(deliveries(c), LAMBDA event : event.side = e)

\* C26: what a consumer is given of one endpoint is given in the order in
\* which the endpoint published it, without a gap; the sequence fields of
\* the telegram events among it increase by 1; every telegram event given
\* to a consumer is already in the history file of its side, whose lines
\* are the telegrams of that endpoint in the order of their sequence fields.
C26_OrderKept ==
    \A e \in E :
        LET lines == parse(readlines(history_files[e]))
        IN  /\ \A i \in 1..Len(lines) : lines[i] = [side |-> e, text |-> str(i)]
            /\ \A c \in Consumers :
                   LET got == from_side(c, e)
                       telegrams == SelectSeq(got, LAMBDA event : event.type = "telegram")
                   IN  /\ \A i \in 1..(Len(got) - 1) : got[i + 1].nth = got[i].nth + 1
                       /\ \A i \in 1..(Len(telegrams) - 1) :
                              telegrams[i + 1].sequence = telegrams[i].sequence + 1
                       /\ \A i \in 1..Len(telegrams) : telegrams[i].sequence <= Len(lines)

\* a consumer has been given a telegram, a status event and a second
\* telegram of the master, and both telegrams are in the master's file
C26_Witness ==
    /\ Len(from_side("c1", "client")) = 3
    /\ from_side("c1", "client")[1].sequence = 1
    /\ from_side("c1", "client")[2].type = "status"
    /\ from_side("c1", "client")[3].sequence = 2
    /\ Len(recorded.client) = 2
    /\ consumer["c1"].taken # <<>>

(***************************************************************************)
(* Claims about the slave (checked under SpecSlave) and about the events   *)
(* of errors (checked under SpecReconnect)                                 *)
(***************************************************************************)
\* C21: whenever a session of the slave ends on an I/O error, by a close or
\* reset of the peer or by a reply, an S-frame or a general-interrogation
\* confirmation that cannot be sent, the slave has published status
\* connected=false and is back in run(), accepting the next connection.
C21_SlaveSurvivesErrors ==
    [][(/\ pc["server"] \in {"select", "frames"}
        /\ sock["server"]
        /\ ~sock'["server"])
           => /\ connected'["server"] = FALSE
              /\ pc'["server"] = "listen"]_vars

\* the events other than status events among those the master has published
telegram_events(log) == SelectSeq(log, LAMBDA event : event.kind # "status")

\* C22: every error of the master's connection (connect() fails, the peer
\* closes or resets, recv() raises) puts exactly one event on the bus, the
\* status event that follows it not counted.
C22_OneEventPerError ==
    [][(/\ pc["client"] \in {"run", "select"}
        /\ pc'["client"] = "run"
        /\ published' # published)
           => Len(telegram_events(published'))
                  = 1 + (IF pc["client"] = "select"
                         THEN Len(telegram_events(published)) ELSE 0)]_vars

\* the frames the slave has written after entry i of its log and before it
\* published the next received frame
RECURSIVE written_after(_)
written_after(i) ==
    IF i + 1 > Len(slave_log) \/ slave_log[i + 1].direction = "incoming"
    THEN <<>>
    ELSE <<slave_log[i + 1].frame>> \o written_after(i + 1)

\* the connection broke while the slave answered the frame of entry i
cut_short(i) ==
    /\ pc["server"] = "crashed"
    /\ \A j \in (i + 1)..Len(slave_log) : slave_log[j].direction = "outgoing"

\* C23: for every I-frame with type 100 and cause 6 that the slave has
\* received on a connection that lasts: outside a test it has then written
\* C_IC_NA_1 with cause 7, C_IC_NA_1 with cause 10, whose send sequence
\* number is the next one, and the S-frame, and nothing else before the
\* next received frame; in a test it has written the S-frame only.
C23_InterrogationAnswered ==
    \A i \in 1..Len(slave_log) :
        LET telegram == decode_frame(slave_log[i].frame)
            answer == written_after(i)
        IN  (/\ slave_log[i].direction = "incoming"
             /\ telegram.frame_family = "I"
             /\ telegram.type_id = 100
             /\ telegram.cause = 6
             /\ ~cut_short(i))
                => IF slave_log[i].test_active
                   THEN /\ Len(answer) = 1
                        /\ frame_family(answer[1]) = "S"
                   ELSE /\ Len(answer) = 3
                        /\ decode_frame(answer[1]).frame_family = "I"
                        /\ decode_frame(answer[1]).type_id = 100
                        /\ decode_frame(answer[1]).cause = 7
                        /\ decode_frame(answer[2]).frame_family = "I"
                        /\ decode_frame(answer[2]).type_id = 100
                        /\ decode_frame(answer[2]).cause = 10
                        /\ extract_sequences(answer[2]).send
                               = (extract_sequences(answer[1]).send + 1) % SEQ_MODULUS
                        /\ frame_family(answer[3]) = "S"

\* the slave has sent a signal of its own in an earlier pass of its loop
\* and has now, outside a test, answered a general interrogation
C23_Witness ==
    /\ pc["server"] = "commands"
    /\ Len(slave_log) = 4
    /\ slave_log[1].direction = "incoming"
    /\ decode_frame(slave_log[1].frame).label = "GENERALABFRAGE ACT"
    /\ ~slave_log[1].test_active
    /\ decode_frame(slave_log[2].frame).label = "GENERALABFRAGE CON"
    /\ decode_frame(slave_log[3].frame).label = "GENERALABFRAGE END"
    /\ extract_sequences(slave_log[2].frame).send = 1
    /\ extract_sequences(slave_log[3].frame).send = 2

\* C24: after every STARTDT ACT the slave has received on a connection
\* that lasts it has written STARTDT CON, once, and after every TESTFR ACT
\* TESTFR CON, once, after it published the received frame and before it
\* published the next one; after any other U-frame it has written nothing,
\* and it writes no U-frame but these.
C24_StartAndTestConfirmed ==
    \A i \in 1..Len(slave_log) :
        LET telegram == decode_frame(slave_log[i].frame)
            answer == written_after(i)
        IN  /\ (/\ slave_log[i].direction = "incoming"
                /\ telegram.frame_family = "U"
                /\ ~cut_short(i))
                   => IF telegram.label \in {"STARTDT ACT", "TESTFR ACT"}
                      THEN /\ Len(answer) = 1
                           /\ decode_frame(answer[1]).frame_family = "U"
                           /\ decode_frame(answer[1]).label =
                                  (IF telegram.label = "STARTDT ACT"
                                   THEN "STARTDT CON" ELSE "TESTFR CON")
                      ELSE answer = <<>>
            /\ (slave_log[i].direction = "outgoing" /\ telegram.frame_family = "U")
                   => /\ i > 1
                      /\ slave_log[i - 1].direction = "incoming"
                      /\ decode_frame(slave_log[i - 1].frame).label
                             = (IF telegram.label = "STARTDT CON"
                                THEN "STARTDT ACT" ELSE "TESTFR ACT")
                      /\ telegram.label \in {"STARTDT CON", "TESTFR CON"}

\* the slave has answered a TESTFR ACT and the same recv() has returned a
\* STOPDT ACT behind it, which the slave handles next
C24_Witness ==
    /\ pc["server"] = "frames"
    /\ wire["server"] # <<>>
    /\ decode_frame(Head(wire["server"])).label = "STOPDT ACT"
    /\ Len(slave_log) = 2
    /\ slave_log[1].direction = "incoming"
    /\ decode_frame(slave_log[1].frame).label = "TESTFR ACT"
    /\ slave_log[2].direction = "outgoing"
    /\ decode_frame(slave_log[2].frame).label = "TESTFR CON"

====
